---- MODULE Spec2Model ----
(***************************************************************************)
(* Throughput-management core of the synthetic math prompts agent:         *)
(* AdaptiveThreadPool and ConcurrentProcessor.process_batch                *)
(* (core/orchestration/concurrent_processor.py) driving attempts of        *)
(* _generate_and_validate_prompt (core/orchestration/generate_batch.py).   *)
(* The libraries the attempts call are modelled beside it: LLMCache         *)
(* (core/llm/llm_cache.py), LLMClient.call_model (core/llm/llm_client.py)  *)
(* and CostTracker (utils/costs.py).                                       *)
(***************************************************************************)
EXTENDS Integers, Sequences, FiniteSets, TLC

(***************************************************************************)
(* Bounds of the model.                                                    *)
(***************************************************************************)
MaxBaseline == 2          \* config["max_workers"] ranges over 1..MaxBaseline in a run
MaxTarget == 2            \* config["num_problems"] ranges over 1..MaxTarget
MaxPoolBaseline == 60     \* baselines tried when the pool is driven through its API alone
MaxCompleted == 6         \* completions recorded when the pool is driven through its API alone
MaxCorrections == 2       \* entries of a corrected_hints map

(***************************************************************************)
(* Program constants.                                                      *)
(***************************************************************************)
AdaptCooldown == 30       \* seconds that must have passed since the last adaptation
AdaptationInterval == 2   \* config["adaptation_interval"] of the modelled runs
TargetSuccessPct == 30    \* config default target_success_rate = 0.3, in percent
FloorWorkers == 2         \* min_workers = max(2, initial // 4)
CapWorkers == 50          \* max_workers = min(50, initial * 3)
PipelineFactor == 2       \* len(futures) < current_workers * 2

BaseCeiling == 3          \* config["max_attempts"] of the runs with mixed outcomes
ShrinkBaseline == 3       \* config["max_workers"] of the runs in which the pool shrinks
CeilingChoices == {BaseCeiling, 5}  \* config["max_attempts"] of the modelled runs
ClockDeltas == {30, 31}   \* seconds a clock step may add (on and past the cooldown)

Max(a, b) == IF a >= b THEN a ELSE b
Min(a, b) == IF a <= b THEN a ELSE b

VARIABLES
    thread_pool,        \* the AdaptiveThreadPool of the processor
    target_count,       \* ConcurrentProcessor.target_count
    max_attempts,       \* local max_attempts of process_batch
    attempt_counter,    \* ConcurrentProcessor.attempt_counter
    approved_count,     \* ConcurrentProcessor.approved_count
    accepted,           \* ConcurrentProcessor.accepted (attempt numbers)
    discarded,          \* ConcurrentProcessor.discarded (attempt numbers)
    errors,             \* ConcurrentProcessor.errors (records)
    futures,            \* local list futures of process_batch (attempt numbers)
    current_workers,    \* local current_workers of process_batch
    completed_futures,  \* local list completed_futures of process_batch
    executor_workers,   \* max_workers of the ThreadPoolExecutor
    tasks,              \* tasks[n]: state of the future of attempt n
    scenario,           \* what the stage calls of this run can answer
    callback_raises,    \* whether progress_callback can raise
    pc,                 \* position of process_batch
    attempt,            \* one execution of _generate_and_validate_prompt
    llm_cache,          \* an LLMCache: its fields, its files and the clock it reads
    cache_call,         \* the last call made on the cache and what it returned
    cache_requests,     \* the requests the callers of the cache make in this run
    cache_tracked,      \* the latest put under the key of the first put since a clear
    cache_recency,      \* rank of each held key by its last use (1 = least recent)
    llm_client,         \* the LLMClient: the keys it found, what the providers answered
    client_call,        \* one execution of LLMClient.call_model
    pipeline,           \* one run of run_generation_pipeline as seen from the client
    tracker,            \* the CostTracker of a run: its fields and the holder of its lock
    cost_threads,       \* cost_threads[t]: position and locals of thread t in log
    cost_reader,        \* a thread that reads the total and the breakdown
    cost_expected,      \* what the completed log calls add up to
    adapted_at,         \* completed_tasks of the pool when it last adapted (0: never)
    cache_worker,       \* a thread that puts a response and then gets it back
    config_manager,     \* the global ConfigManager: the model each agent role reads
    dispatch,           \* dispatch[a]: position of attempt a in its stage calls
    validation          \* one execution of CheckerAgent.validate in equivalence mode

vars == <<thread_pool, target_count, max_attempts, attempt_counter, approved_count,
          accepted, discarded, errors, futures, current_workers, completed_futures,
          executor_workers, tasks, scenario, callback_raises, pc, attempt,
          llm_cache, cache_call, cache_requests, cache_tracked, cache_recency,
          llm_client, client_call, pipeline,
          tracker, cost_threads, cost_reader, cost_expected, adapted_at,
          cache_worker, config_manager, dispatch, validation>>

procVars == <<target_count, max_attempts, attempt_counter, approved_count,
              accepted, discarded, errors, futures, current_workers,
              completed_futures, executor_workers, tasks, scenario,
              callback_raises, pc>>

attemptVars == <<attempt>>

cacheVars == <<llm_cache, cache_call, cache_requests, cache_tracked, cache_recency>>

\* the state of the libraries an attempt's calls go through
clientVars == <<llm_client, client_call, pipeline>>

costVars == <<tracker, cost_threads, cost_reader, cost_expected>>

poolObs == <<adapted_at>>

workerVars == <<cache_worker>>

configVars == <<config_manager, dispatch>>

judgeVars == <<validation>>

libVars == <<cacheVars, clientVars, costVars, poolObs, workerVars, configVars, judgeVars>>

\* everything process_batch and one attempt work on
coreVars == <<thread_pool, procVars, attemptVars>>

(***************************************************************************)
(* AdaptiveThreadPool                                                      *)
(***************************************************************************)
\* AdaptiveThreadPool.__init__; elapsed is time.time() - last_adaptation_time
AdaptiveThreadPool(initial, minw, maxw) ==
    [initial_workers |-> initial, min_workers |-> minw, max_workers |-> maxw,
     current_workers |-> initial, completed_tasks |-> 0, successful_tasks |-> 0,
     failed_tasks |-> 0, elapsed |-> 0, stop_event |-> FALSE]

\* _should_adapt
_should_adapt(p) ==
    /\ p.completed_tasks > 0
    /\ p.completed_tasks % AdaptationInterval = 0
    /\ p.elapsed > AdaptCooldown

\* success_rate < target_success_rate * 0.5, with success_rate = 0.0 when nothing completed
RateTooLow(p) ==
    IF p.completed_tasks = 0 THEN 0 < TargetSuccessPct
    ELSE p.successful_tasks * 200 < TargetSuccessPct * p.completed_tasks

\* success_rate > target_success_rate * 1.2
RateGood(p) ==
    IF p.completed_tasks = 0 THEN FALSE
    ELSE p.successful_tasks * 1000 > TargetSuccessPct * 12 * p.completed_tasks

\* _adapt_worker_count: the new worker count
_adapt_worker_count(p) ==
    IF RateTooLow(p) THEN Max(p.min_workers, (p.current_workers * 8) \div 10)
    ELSE IF RateGood(p) THEN Min(p.max_workers, (p.current_workers * 12) \div 10)
    ELSE p.current_workers

\* record_task_result that also clears the stop event
record_task_result_ClearsStop(p, success) ==
    [p EXCEPT !.completed_tasks = @ + 1,
              !.successful_tasks = IF success THEN @ + 1 ELSE @,
              !.failed_tasks = IF success THEN @ ELSE @ + 1,
              !.stop_event = FALSE]

\* record_task_result
record_task_result(p, success) ==
    [p EXCEPT !.completed_tasks = @ + 1,
              !.successful_tasks = IF success THEN @ + 1 ELSE @,
              !.failed_tasks = IF success THEN @ ELSE @ + 1]

\* should_stop
should_stop(p) == p.stop_event

\* signal_stop
signal_stop(p) == [p EXCEPT !.stop_event = TRUE]

\* get_current_workers: the pool after the call; the value returned is its current_workers
get_current_workers(p) ==
    IF _should_adapt(p)
    THEN [p EXCEPT !.current_workers = _adapt_worker_count(p), !.elapsed = 0]
    ELSE p

\* completed_tasks at the last adaptation, after a call of get_current_workers
AdaptedAt(p, at) == IF _should_adapt(p) THEN p.completed_tasks ELSE at

\* the wall clock advances by dt seconds
AdvanceClock(p, dt) ==
    [p EXCEPT !.elapsed = Min(@ + dt, AdaptCooldown + 1)]


(***************************************************************************)
(* One attempt: _generate_and_validate_prompt                              *)
(***************************************************************************)
HintKeys == {"0", "1", "2"}                 \* keys of the Engineer's hints
CorrectionKeys == {"0", "1", "7"}           \* keys a correction map may carry
NullHint == "<null>"                        \* a corrected hint that is not a string
HintValues == {"", " ", "orig", "rev", NullHint}
Reasons == {"answer not justified", "No reason provided"}
TargetSolvedReason == "Target model solved correctly"
ClassificationFailedReason == "Subject/topic classification failed"
TooEasyReason == "Pre-filtered as too easy"

\* str.strip() on the hint values of the model
Strip(v) == IF v = " " THEN "" ELSE v

EngineerHints == [k \in HintKeys |-> "orig"]
NoHints == [k \in {} |-> ""]

\* the corrected_hints of a checker result: None, a dict (its items in
\* insertion order) or a non-empty value of another type
DictItems ==
    UNION {{d \in [1..n -> [key : CorrectionKeys, value : HintValues]] :
              \A i, j \in 1..n : d[i].key = d[j].key => i = j} : n \in 0..MaxCorrections}

CorrectedHintsChoices ==
    {[kind |-> "none", items |-> <<>>], [kind |-> "other", items |-> <<>>]}
    \cup {[kind |-> "dict", items |-> d] : d \in DictItems}

\* bool(corrected_hints)
Truthy(ch) == ch.kind = "other" \/ (ch.kind = "dict" /\ ch.items # <<>>)

RECURSIVE AnyStripped(_)
\* any(h.strip() for h in corrected_hints.values()): "true", "false", or "raise"
\* when a value that is not a string is reached
AnyStripped(items) ==
    IF items = <<>> THEN "false"
    ELSE IF Head(items).value = NullHint THEN "raise"
    ELSE IF Strip(Head(items).value) # "" THEN "true"
    ELSE AnyStripped(Tail(items))

\* HintsWereCorrected that counts a hint of blanks as a correction
HintsWereCorrected_NoStrip(ch) ==
    IF ~Truthy(ch) THEN "false"
    ELSE IF ch.kind # "dict" THEN "false"
    ELSE IF \E i \in 1..Len(ch.items) : ch.items[i].value \notin {"", NullHint}
    THEN "true"
    ELSE AnyStripped(ch.items)

\* bool(corrected_hints) and isinstance(corrected_hints, dict) and any(...)
HintsWereCorrected(ch) ==
    IF ~Truthy(ch) THEN "false"
    ELSE IF ch.kind # "dict" THEN "false"
    ELSE AnyStripped(ch.items)

RECURSIVE MergeHints_AddsKeys(_, _)
\* MergeHints that also stores the corrections of keys the hints do not have
MergeHints_AddsKeys(hints, items) ==
    IF items = <<>> THEN hints
    ELSE LET it == Head(items)
         IN MergeHints_AddsKeys([k \in DOMAIN hints \cup {it.key} |->
                                    IF k = it.key THEN it.value ELSE hints[k]],
                                Tail(items))

RECURSIVE MergeHints(_, _)
\* for idx_str, revised_hint in corrected_hints.items(): overwrite the known keys
MergeHints(hints, items) ==
    IF items = <<>> THEN hints
    ELSE LET it == Head(items)
         IN MergeHints(IF it.key \in DOMAIN hints
                       THEN [hints EXCEPT ![it.key] = it.value] ELSE hints,
                       Tail(items))

\* the locals checker_result and final_check before they are assigned
NoCheckerResult ==
    [kind |-> "unset", valid |-> FALSE, reason |-> "",
     corrected |-> [kind |-> "none", items |-> <<>>]]
NoFinalCheck == [kind |-> "unset", valid |-> FALSE]

\* the problem texts and true answers an Engineer result can carry
Problems == {"p", " p ", "q"}
Answers == {"1", "2"}

\* str.strip() on the problem texts of the model
StripProblem(t) == IF t = " p " THEN "p" ELSE t

\* TargetAgent.get_system_prompt().strip()
TargetSystemPrompt == "You are a math student"

\* no call of the Target has been made
NoTargetRequest == [prompt |-> <<>>, temperature |-> -1]

\* TargetAgent.solve: the call_model request made for problem_text; the prompt is
\* the stripped system prompt, a blank line and the stripped problem text, the
\* temperature is 0.0
solve(problem_text) ==
    [prompt |-> <<TargetSystemPrompt, StripProblem(problem_text)>>, temperature |-> 0]

\* call_target_model that hands the true answer on with the problem
call_target_model_WithAnswer(core) ==
    [solve(core.problem) EXCEPT !.prompt = Append(@, core.answer)]

\* call_target_model(core["problem"], target_cfg): target_agent.solve(problem_text)
call_target_model(core) == solve(core.problem)

\* the attempt when _generate_and_validate_prompt is entered
NewAttempt(use_search) ==
    [stage |-> "Start", result |-> "none", rejection_reason |-> "",
     error_stage |-> "", hints |-> NoHints, hints_were_corrected |-> FALSE,
     calls |-> <<>>, cost_logged |-> <<>>, cost_failed |-> <<>>,
     log_fails |-> {}, similar |-> "unset", similarity_response |-> "none",
     engineer_output |-> [problem |-> "p", answer |-> "1"],
     problem |-> "", answer |-> "", target_request |-> NoTargetRequest,
     checker_result |-> NoCheckerResult, final_check |-> NoFinalCheck,
     use_search |-> use_search]

\* the except clause: result = "error", {...}
Errored(a, where) ==
    [a EXCEPT !.stage = "Errored", !.result = "error", !.error_stage = where]

\* return "discarded", {..., "rejection_reason": reason}
Discard(a, reason) ==
    [a EXCEPT !.stage = "Discarded", !.result = "discarded", !.rejection_reason = reason]

\* the statements before the try block raise, or inside it the topic is selected
\* (seed classification, curriculum or taxonomy choice, pre-filtering)
SelectStep(a, pre) ==
    IF a.stage # "Start" THEN a
    ELSE IF pre = "escape"
    THEN [a EXCEPT !.stage = "Raised", !.result = "raised", !.error_stage = "setup"]
    ELSE IF pre = "raise" THEN Errored(a, "select")
    ELSE IF pre = "classification_failed" THEN Discard(a, ClassificationFailedReason)
    ELSE IF pre = "too_easy" THEN Discard(a, TooEasyReason)
    ELSE [a EXCEPT !.stage = "Selected"]

\* the stage calls whose cost an attempt logs
LogStages == {"engineer", "checker_initial", "target", "checker_equivalence"}

\* safe_log_cost that logs the call twice
safe_log_cost_Twice(a, stage) ==
    [a EXCEPT !.cost_logged = Append(Append(@, stage), stage),
              !.cost_failed = IF stage \in a.log_fails THEN Append(@, stage) ELSE @]

\* safe_log_cost: one call of cost_tracker.log inside try/except; when the call
\* raises the error is logged and the caller goes on
safe_log_cost(a, stage) ==
    [a EXCEPT !.cost_logged = Append(@, stage),
              !.cost_failed = IF stage \in a.log_fails THEN Append(@, stage) ELSE @]

\* Step 1: call_engineer and the cost log that follows it
EngineerStep(a, resp) ==
    IF a.stage # "Selected" THEN a
    ELSE LET b == [a EXCEPT !.calls = Append(@, "engineer")]
         IN IF resp # "ok" THEN Errored(b, "engineer")
            ELSE [safe_log_cost(b, "engineer") EXCEPT !.stage = "Generated",
                                                      !.hints = EngineerHints,
                                                      !.problem = a.engineer_output.problem,
                                                      !.answer = a.engineer_output.answer]

\* CheckerStep without the "if not checker_result['valid']" return
CheckerStep_NoVerdictCheck(a, resp) ==
    IF a.stage # "Generated" THEN a
    ELSE LET b == [a EXCEPT !.calls = Append(@, "checker_initial")]
         IN IF resp.kind # "ok" THEN Errored(b, "checker_initial")
            ELSE LET c == [safe_log_cost(b, "checker_initial") EXCEPT !.checker_result = resp]
                     flag == HintsWereCorrected(resp.corrected)
                 IN IF flag = "raise" THEN Errored(c, "checker_initial")
                    ELSE LET d == [c EXCEPT !.hints_were_corrected = (flag = "true")]
                         IN IF ~Truthy(resp.corrected)
                            THEN [d EXCEPT !.stage = "InitiallyValidated"]
                            ELSE IF resp.corrected.kind # "dict"
                            THEN Errored(d, "checker_initial")
                            ELSE [d EXCEPT !.stage = "InitiallyValidated",
                                           !.hints = MergeHints(@, resp.corrected.items)]

\* Step 2: call_checker in "initial" mode, hints_were_corrected, the validity
\* check and the merge of the corrected hints
CheckerStep(a, resp) ==
    IF a.stage # "Generated" THEN a
    ELSE LET b == [a EXCEPT !.calls = Append(@, "checker_initial")]
         IN IF resp.kind # "ok" THEN Errored(b, "checker_initial")
            ELSE LET c == [safe_log_cost(b, "checker_initial") EXCEPT !.checker_result = resp]
                     flag == HintsWereCorrected(resp.corrected)
                 IN IF flag = "raise" THEN Errored(c, "checker_initial")
                    ELSE LET d == [c EXCEPT !.hints_were_corrected = (flag = "true")]
                         IN IF ~resp.valid THEN Discard(d, resp.reason)
                            ELSE IF ~Truthy(resp.corrected)
                            THEN [d EXCEPT !.stage = "InitiallyValidated"]
                            ELSE IF resp.corrected.kind # "dict"
                            THEN Errored(d, "checker_initial")
                            ELSE [d EXCEPT !.stage = "InitiallyValidated",
                                           !.hints = MergeHints(@, resp.corrected.items)]

\* Step 3: call_target_model and the cost log that follows it
TargetStep(a, resp) ==
    IF a.stage # "InitiallyValidated" THEN a
    ELSE LET b == [a EXCEPT !.calls = Append(@, "target"),
                            !.target_request = call_target_model(a)]
         IN IF resp # "ok" THEN Errored(b, "target")
            ELSE [safe_log_cost(b, "target") EXCEPT !.stage = "TargetAttempted"]

\* AcceptWithSimilarity without the try / except around the scoring
AcceptWithSimilarity_Unguarded(c, sim) ==
    IF c.use_search
    THEN IF sim = "ok"
         THEN [c EXCEPT !.stage = "Accepted", !.result = "accepted",
                        !.calls = Append(@, "similarity"),
                        !.similarity_response = sim, !.similar = "scored"]
         ELSE Errored([c EXCEPT !.calls = Append(@, "similarity"),
                                !.similarity_response = sim], "similarity")
    ELSE [c EXCEPT !.stage = "Accepted", !.result = "accepted"]

\* the branch taken when the final check is not valid: Step 5, the optional
\* similarity scoring inside its own try / except, then result = "accepted"
AcceptWithSimilarity(c, sim) ==
    IF c.use_search
    THEN [c EXCEPT !.stage = "Accepted", !.result = "accepted",
                   !.calls = Append(@, "similarity"),
                   !.similarity_response = sim,
                   !.similar = IF sim = "ok" THEN "scored" ELSE "null"]
    ELSE [c EXCEPT !.stage = "Accepted", !.result = "accepted"]

\* EquivalenceStep that accepts when the judge says valid
EquivalenceStep_Swapped(a, resp, sim) ==
    IF a.stage # "TargetAttempted" THEN a
    ELSE LET b == [a EXCEPT !.calls = Append(@, "checker_equivalence")]
         IN IF resp.kind # "ok" THEN Errored(b, "checker_equivalence")
            ELSE LET c == [safe_log_cost(b, "checker_equivalence") EXCEPT !.final_check = resp]
                 IN IF resp.valid
                    THEN AcceptWithSimilarity(c, sim)
                    ELSE Discard(c, TargetSolvedReason)

\* Step 4: call_checker in "equivalence_check" mode, then accept (with the
\* optional similarity scoring of Step 5) or discard
EquivalenceStep(a, resp, sim) ==
    IF a.stage # "TargetAttempted" THEN a
    ELSE LET b == [a EXCEPT !.calls = Append(@, "checker_equivalence")]
         IN IF resp.kind # "ok" THEN Errored(b, "checker_equivalence")
            ELSE LET c == [safe_log_cost(b, "checker_equivalence") EXCEPT !.final_check = resp]
                 IN IF ~resp.valid
                    THEN AcceptWithSimilarity(c, sim)
                    ELSE Discard(c, TargetSolvedReason)

PreChoices == {"proceed", "classification_failed", "too_easy", "raise", "escape"}
EngineerResponses == {"ok", "model_error", "bad_json", "missing_field", "few_hints"}
CheckerKinds == {"ok", "model_error", "bad_json", "missing_valid"}
CheckerResponses ==
    [kind : CheckerKinds, valid : BOOLEAN, reason : Reasons,
     corrected : CorrectedHintsChoices]
TargetResponses == {"ok", "model_error"}
FinalResponses == [kind : CheckerKinds, valid : BOOLEAN]
SimilarityResponses == {"ok", "raise"}

\* the whole of _generate_and_validate_prompt on the answers r of its calls
RunAttempt(r) ==
    EquivalenceStep(
        TargetStep(
            CheckerStep(
                EngineerStep(SelectStep(NewAttempt(FALSE), r.pre), r.engineer),
                r.checker),
            r.target),
        r.final, r.sim)

\* the answers along the paths an attempt of a modelled run can take
GoodRun ==
    [pre |-> "proceed", engineer |-> "ok",
     checker |-> [kind |-> "ok", valid |-> TRUE, reason |-> "No reason provided",
                  corrected |-> [kind |-> "none", items |-> <<>>]],
     target |-> "ok", final |-> [kind |-> "ok", valid |-> FALSE], sim |-> "ok"]

PathAnswers(path) ==
    CASE path = "judge_invalid" -> GoodRun
      [] path = "judge_valid" -> [GoodRun EXCEPT !.final.valid = TRUE]
      [] path = "initial_invalid" ->
            [GoodRun EXCEPT !.checker.valid = FALSE,
                            !.checker.reason = "answer not justified"]
      [] path = "setup_raises" -> [GoodRun EXCEPT !.pre = "escape"]
      [] path = "engineer_raises" -> [GoodRun EXCEPT !.engineer = "model_error"]
      [] path = "few_hints" -> [GoodRun EXCEPT !.engineer = "few_hints"]
      [] path = "checker_raises" -> [GoodRun EXCEPT !.checker.kind = "bad_json"]
      [] path = "target_raises" -> [GoodRun EXCEPT !.target = "model_error"]
      [] path = "judge_raises" -> [GoodRun EXCEPT !.final.kind = "model_error"]

Paths == {"judge_invalid", "judge_valid", "initial_invalid", "setup_raises",
          "engineer_raises", "few_hints", "checker_raises", "target_raises",
          "judge_raises"}

RaisingPaths == {"setup_raises", "engineer_raises", "few_hints", "checker_raises",
                 "target_raises", "judge_raises"}

\* what task_func does along a path: the result type it returns, or "raised"
PathOutcome(path) == RunAttempt(PathAnswers(path)).result

(***************************************************************************)
(* LLMCache (core/llm/llm_cache.py)                                        *)
(***************************************************************************)
MaxSize == 2              \* max_size ranges over 1..MaxSize
MaxTtl == 1               \* ttl_seconds ranges over 1..MaxTtl
MaxClock == 2             \* time.time() ranges over 0..MaxClock

CacheProviders == {"openai", "OpenAI"}
CachePrompts == {"a", " a", "b"}
\* a temperature: its value in tenths and the text json.dumps writes for it
Temperatures == {[value |-> 10, text |-> "1"], [value |-> 10, text |-> "1.0"],
                 [value |-> 7, text |-> "0.7"]}
\* the names of the keyword options of a request
OptionChoices == {{}, {"max_retries"}}
CacheRequests == [provider : CacheProviders, model_name : {"gpt-4"},
                  prompt : CachePrompts, temperature : Temperatures,
                  options : OptionChoices]
CacheResponses == {"r1", "r2"}
NoResponse == "None"

\* str.lower() and str.strip() on the values of the model
Lower(s) == IF s = "OpenAI" THEN "openai" ELSE s
StripPrompt(p) == IF p = " a" THEN "a" ELSE p
IgnoredOptions == {"max_retries", "retry_delay"}

\* _generate_cache_key that leaves the temperature out of the key
_generate_cache_key_NoTemperature(req) ==
    [provider |-> Lower(req.provider), model_name |-> req.model_name,
     prompt |-> StripPrompt(req.prompt), temperature |-> "0.7",
     options |-> req.options \ IgnoredOptions]

\* _generate_cache_key: the normalised request whose JSON text is hashed
\* (SHA-256 is taken to be injective on these texts)
_generate_cache_key(req) ==
    [provider |-> Lower(req.provider), model_name |-> req.model_name,
     prompt |-> StripPrompt(req.prompt), temperature |-> req.temperature.text,
     options |-> req.options \ IgnoredOptions]

CacheKeys == {_generate_cache_key(req) : req \in CacheRequests}

NoEntry == [response |-> NoResponse, timestamp |-> -1]

\* LLMCache.__init__; disk[k] is the file <k>.json of cache_dir, now is time.time()
LLMCache(max_size, ttl_seconds, enabled, persistent) ==
    [max_size |-> max_size, ttl_seconds |-> ttl_seconds,
     cache_enabled |-> enabled, persistent_cache |-> persistent,
     cache |-> [k \in CacheKeys |-> NoEntry], access_order |-> <<>>,
     disk |-> [k \in CacheKeys |-> NoEntry], now |-> 0]

\* _is_expired
_is_expired(c, timestamp) == c.now - timestamp > c.ttl_seconds

InCache(c, k) == c.cache[k] # NoEntry
CacheLen(c) == Cardinality({k \in CacheKeys : InCache(c, k)})

\* list.remove: drops the first occurrence
RECURSIVE ListRemove(_, _)
ListRemove(sq, x) ==
    IF sq = <<>> THEN <<>>
    ELSE IF Head(sq) = x THEN Tail(sq)
    ELSE <<Head(sq)>> \o ListRemove(Tail(sq), x)

\* MoveToEnd that appends the key without removing it first
MoveToEnd_Duplicate(sq, x) == Append(sq, x)

\* "if cache_key in self._access_order: remove; append"
MoveToEnd(sq, x) == Append(ListRemove(sq, x), x)

\* _evict_lru that drops the most recently used key
_evict_lru_Newest(c) ==
    IF c.access_order = <<>> THEN c
    ELSE LET mru == c.access_order[Len(c.access_order)]
         IN  [c EXCEPT !.access_order = SubSeq(@, 1, Len(@) - 1),
                       !.cache[mru] = NoEntry]

\* _evict_lru
_evict_lru(c) ==
    IF c.access_order = <<>> THEN c
    ELSE LET lru_key == Head(c.access_order)
         IN  [c EXCEPT !.access_order = Tail(@), !.cache[lru_key] = NoEntry]

\* an overflow test that lets one entry too many stay
NeedsEviction_OneMore(c) == CacheLen(c) > c.max_size + 1

\* len(self._cache) > self.max_size
NeedsEviction(c) == CacheLen(c) > c.max_size

EvictIfNecessary(c) == IF NeedsEviction(c) THEN _evict_lru(c) ELSE c

\* _load_from_disk: the cache after the call and the response it returns
_load_from_disk(c, k) ==
    IF ~c.persistent_cache \/ c.disk[k] = NoEntry
    THEN [cache |-> c, response |-> NoResponse]
    ELSE IF _is_expired(c, c.disk[k].timestamp)
    THEN [cache |-> [c EXCEPT !.disk[k] = NoEntry], response |-> NoResponse]
    ELSE [cache |-> c, response |-> c.disk[k].response]

\* _save_to_disk
_save_to_disk(c, k, response) ==
    IF ~c.persistent_cache THEN c
    ELSE [c EXCEPT !.disk[k] = [response |-> response, timestamp |-> c.now]]

\* get, after the in-memory lookup missed or dropped an expired entry
GetFromDisk(c, k) ==
    LET loaded == _load_from_disk(c, k)
        d == loaded.cache
    IN  IF loaded.response = NoResponse THEN loaded
        ELSE [cache |-> EvictIfNecessary(
                           [d EXCEPT !.cache[k] = [response |-> loaded.response,
                                                   timestamp |-> d.now],
                                     !.access_order = Append(@, k)]),
              response |-> loaded.response]

\* get: the cache after the call and the response it returns
get(c, req) ==
    LET k == _generate_cache_key(req)
    IN  IF ~c.cache_enabled THEN [cache |-> c, response |-> NoResponse]
        ELSE IF InCache(c, k) /\ ~_is_expired(c, c.cache[k].timestamp)
        THEN [cache |-> [c EXCEPT !.access_order = MoveToEnd(@, k)],
              response |-> c.cache[k].response]
        ELSE IF InCache(c, k)
        THEN GetFromDisk([c EXCEPT !.cache[k] = NoEntry,
                                   !.access_order = ListRemove(@, k)], k)
        ELSE GetFromDisk(c, k)

\* put
put(c, req, response) ==
    LET k == _generate_cache_key(req)
    IN  IF ~c.cache_enabled THEN c
        ELSE _save_to_disk(
                 EvictIfNecessary(
                     [c EXCEPT !.cache[k] = [response |-> response, timestamp |-> c.now],
                               !.access_order = MoveToEnd(@, k)]),
                 k, response)

\* clear
clear(c) ==
    [c EXCEPT !.cache = [k \in CacheKeys |-> NoEntry],
              !.access_order = <<>>,
              !.disk = IF c.persistent_cache THEN [k \in CacheKeys |-> NoEntry] ELSE @]

\* the requests the callers of a run make: one request and requests that
\* differ from it in one part, distinct requests, and two requests only
BaseRequest == [provider |-> "openai", model_name |-> "gpt-4", prompt |-> "a",
                temperature |-> [value |-> 7, text |-> "0.7"], options |-> {}]
PoolSpelling ==
    {BaseRequest, [BaseRequest EXCEPT !.provider = "OpenAI"],
     [BaseRequest EXCEPT !.prompt = " a"],
     [BaseRequest EXCEPT !.options = {"max_retries"}],
     [BaseRequest EXCEPT !.temperature = [value |-> 10, text |-> "1"]],
     [BaseRequest EXCEPT !.temperature = [value |-> 10, text |-> "1.0"]]}
PoolDistinct ==
    {r \in CacheRequests :
        /\ r.provider = "openai" /\ r.options = {}
        /\ r.prompt \in {"a", "b"} /\ r.temperature.text \in {"0.7", "1.0"}}
PoolSmall == {r \in PoolDistinct : r.temperature.text = "0.7"}

NoRequest == [provider |-> "none", model_name |-> "none", prompt |-> "none",
              temperature |-> [value |-> 0, text |-> "none"], options |-> {}]

\* a thread that has not called the cache yet: the request and the response
\* of its put, what its get returned and how long after the put, whether
\* another thread has put under its key or cleared the cache in between, and
\* the keys put into the cache so far
NoCacheWorker ==
    [pc |-> "start", request |-> NoRequest, response |-> NoResponse,
     got |-> NoResponse, age |-> 0, disturbed |-> FALSE, inserted |-> {}]

\* no call made yet on the cache
NoCacheCall == [op |-> "none", request |-> NoRequest, response |-> NoResponse,
                evicted |-> {}]

\* no put made yet on the cache
NoTrackedPut == [key |-> _generate_cache_key(NoRequest), value |-> 0,
                 response |-> NoResponse, time |-> 0]

(***************************************************************************)
(* LLMClient.call_model (core/llm/llm_client.py) and the start of a run     *)
(***************************************************************************)
MaxRetries == 3           \* max_retries ranges over 1..MaxRetries
MaxCalls == 3             \* calls of call_model made in a run

ClientProviders == {"openai", "gemini", "deepseek", "anthropic"}
SupportedProviders == {"openai", "gemini", "deepseek"}
ClientPrompts == {"p", "q"}

\* LLMClient.__init__: the providers whose key is in the environment;
\* answered[p] counts the answers the provider gave to prompt p
LLMClient(keys) == [keys |-> keys, answered |-> [p \in ClientPrompts |-> 0]]

\* retry_delay values a caller passes, in milliseconds (the default is 1.0 s)
RetryDelays == {1000, 500}

\* hash(str(thread_id)) % 10 of the threads that call call_model
ThreadHashes == {0, 5, 9}

\* waits: the durations handed to time.sleep, in milliseconds, in order
NoClientCall ==
    [pc |-> "idle", provider |-> "", prompt |-> "", max_retries |-> 0, attempt |-> 0,
     tries |-> 0, contacts |-> 0, sleeps |-> 0, result |-> "none",
     retry_delay |-> 0, thread_hash |-> 0, waits |-> <<>>]

\* call_model up to the for loop; thread_hash is hash(str(thread_id)) % 10 of
\* the calling thread
StartCall(provider, prompt, max_retries, retry_delay, thread_hash) ==
    [NoClientCall EXCEPT !.pc = "loop", !.provider = provider, !.prompt = prompt,
                         !.max_retries = max_retries, !.retry_delay = retry_delay,
                         !.thread_hash = thread_hash]

\* the _call_<provider> branch reaches the provider: the provider is one of
\* the three and its key (its client) is there
CanContact(cl, call) ==
    call.provider \in SupportedProviders /\ call.provider \in cl.keys

\* a loop that makes one pass more
LoopContinues_OneMore(call) == call.attempt <= call.max_retries

\* for attempt in range(max_retries)
LoopContinues(call) == call.attempt < call.max_retries

\* one pass of the loop body: the branch returned a result
TryReturns(call) ==
    [call EXCEPT !.pc = "returned", !.result = "ok", !.tries = @ + 1,
                 !.contacts = @ + 1]

\* a delay that does not grow with the retries
base_sleep_Constant(call) == call.retry_delay

\* base_sleep = retry_delay * (2**attempt)
base_sleep(call) == call.retry_delay * 2^call.attempt

\* jitter = base_sleep * 0.1 * (hash(str(thread_id)) % 10) / 10
jitter(call) == (base_sleep(call) * call.thread_hash) \div 100

\* sleep_time = base_sleep + jitter
sleep_time(call) == base_sleep(call) + jitter(call)

\* one pass of the loop body: the branch raised
TryRaises(call, contacted) ==
    [call EXCEPT !.tries = @ + 1,
                 !.contacts = IF contacted THEN @ + 1 ELSE @,
                 !.sleeps = IF call.attempt < call.max_retries - 1 THEN @ + 1 ELSE @,
                 !.waits = IF call.attempt < call.max_retries - 1
                           THEN Append(@, sleep_time(call)) ELSE @,
                 !.attempt = @ + 1]

\* after the loop: raise APIError
RaiseAPIError(call) == [call EXCEPT !.pc = "raised", !.result = "APIError"]

\* assert_valid_model_config: the provider (and the model name) must be given
ValidModelConfig(provider) == provider # ""

\* run_generation_pipeline before it is called for a configured provider
NewPipeline(provider) ==
    [pc |-> "startup", provider |-> provider, launched |-> 0, errors |-> 0]

(***************************************************************************)
(* CostTracker (utils/costs.py); costs are in billionths of a dollar       *)
(***************************************************************************)
MaxLogs == 3              \* calls of CostTracker.log in a run

LoggerThreads == {"t1", "t2"}

Gpt4oMini == [provider |-> "openai", model_name |-> "gpt-4o-mini"]
GeminiPro == [provider |-> "gemini", model_name |-> "gemini-2.5-pro"]
Unlisted == [provider |-> "openai", model_name |-> "my-model"]
CostKeys == {Gpt4oMini, GeminiPro, Unlisted}

\* MODEL_PRICING.get(key, (0.0, 0.0)): dollars per 1000 tokens, in millionths
MODEL_PRICING(key) ==
    CASE key = Gpt4oMini -> [input |-> 150, output |-> 600]
      [] key = GeminiPro -> [input |-> 2500, output |-> 15000]
      [] OTHER -> [input |-> 0, output |-> 0]

\* the arguments of a log call: the key of model_config, the token counts and
\* the lengths of raw_prompt and raw_output (-1 when it is not a string)
LogArgs ==
    {[key |-> Gpt4oMini, input_tokens |-> 0, output_tokens |-> 0, raw_prompt |-> -1, raw_output |-> -1],
     [key |-> Gpt4oMini, input_tokens |-> 1, output_tokens |-> 0, raw_prompt |-> 8, raw_output |-> 16],
     [key |-> Gpt4oMini, input_tokens |-> 1000, output_tokens |-> 500, raw_prompt |-> -1, raw_output |-> -1],
     [key |-> Unlisted, input_tokens |-> 1000, output_tokens |-> 500, raw_prompt |-> 8, raw_output |-> 16],
     [key |-> GeminiPro, input_tokens |-> 0, output_tokens |-> 0, raw_prompt |-> 8, raw_output |-> 16],
     [key |-> GeminiPro, input_tokens |-> 0, output_tokens |-> 0, raw_prompt |-> -1, raw_output |-> -1],
     [key |-> GeminiPro, input_tokens |-> 1000, output_tokens |-> 500, raw_prompt |-> 8, raw_output |-> 16]}

\* "Estimate missing tokens for Gemini": len(text) // 4 for a count of 0
EstimatedTokens(key, tokens, raw_len) ==
    IF key.provider = "gemini" /\ tokens = 0 /\ raw_len >= 0 THEN raw_len \div 4
    ELSE tokens

\* (input_tokens / 1000) * input_rate + (output_tokens / 1000) * output_rate
CostOf(key, input_tokens, output_tokens) ==
    input_tokens * MODEL_PRICING(key).input + output_tokens * MODEL_PRICING(key).output

NoStats == [input_tokens |-> -1, output_tokens |-> -1, cost |-> -1]
DefaultStats == [input_tokens |-> 0, output_tokens |-> 0, cost |-> 0]

\* CostTracker.__init__
CostTracker ==
    [total_cost |-> 0, model_stats |-> [k \in CostKeys |-> NoStats], lock |-> "free"]

StatsKeys(tr) == {k \in CostKeys : tr.model_stats[k] # NoStats}

\* round(x, 6): to the nearest millionth of a dollar (no sum of the logged
\* costs below lies halfway between two millionths)
Round6(x) == (x + 500) \div 1000

\* get_total_cost, in millionths of a dollar
get_total_cost(tr) == Round6(tr.total_cost)

RECURSIVE SumCosts(_, _)
SumCosts(tr, keys) ==
    IF keys = {} THEN 0
    ELSE LET k == CHOOSE x \in keys : TRUE
         IN  tr.model_stats[k].cost + SumCosts(tr, keys \ {k})

\* a thread that is not in log
IdleLogger == [pc |-> "idle", key |-> Unlisted, input_tokens |-> 0, output_tokens |-> 0,
               total_cost |-> 0]

\* log up to "with self._lock"
LogLocals(args) ==
    LET input_tokens == EstimatedTokens(args.key, args.input_tokens, args.raw_prompt)
        output_tokens == EstimatedTokens(args.key, args.output_tokens, args.raw_output)
    IN  [pc |-> "acquire", key |-> args.key, input_tokens |-> input_tokens,
         output_tokens |-> output_tokens,
         total_cost |-> CostOf(args.key, input_tokens, output_tokens)]

\* a total that is set to the cost of the call
AddTotal_Overwrite(tr, cost) == [tr EXCEPT !.total_cost = cost]

\* self._total_cost += total_cost
AddTotal(tr, cost) == [tr EXCEPT !.total_cost = @ + cost]

\* stats = self._model_stats[key], which inserts the default for a new key
LookupStats(tr, key) ==
    IF tr.model_stats[key] = NoStats THEN [tr EXCEPT !.model_stats[key] = DefaultStats]
    ELSE tr

\* stats["input_tokens"] += ...; stats["output_tokens"] += ...
AddTokens(tr, l) ==
    [tr EXCEPT !.model_stats[l.key].input_tokens = @ + l.input_tokens,
               !.model_stats[l.key].output_tokens = @ + l.output_tokens]

\* stats["cost"] += total_cost, and the lock is released
AddCost(tr, l) ==
    [tr EXCEPT !.model_stats[l.key].cost = @ + l.total_cost, !.lock = "free"]

\* a thread that reads the tracker: the total it read, the size of the
\* dictionary when its iteration began and the sum of the costs it read
IdleReader == [pc |-> "idle", total_cost |-> 0, size |-> 0, sum |-> 0]

NothingLogged ==
    [logs |-> 0, total |-> 0,
     tokens |-> [k \in CostKeys |-> [input_tokens |-> 0, output_tokens |-> 0]]]

\* the tracker of a run that has logged nothing
IdleCostTracker ==
    /\ tracker = CostTracker
    /\ cost_threads = [t \in LoggerThreads |-> IdleLogger]
    /\ cost_reader = IdleReader
    /\ cost_expected = NothingLogged

(***************************************************************************)
(* llm_dispatch: the stage calls and the global ConfigManager              *)
(***************************************************************************)
ConfigAttempts == {1, 2}  \* the attempts whose stage calls are followed

\* the agents and the configuration key "<role>_model" each reads
Roles == {"engineer", "checker", "target"}

\* the model configurations a request can name for a role
RequestModels == {Gpt4oMini, GeminiPro}

\* the stage calls of an attempt, by the role of the agent each creates:
\* call_engineer, call_checker, call_target_model, call_checker
StageRoles == <<"engineer", "checker", "target", "checker">>

\* the global ConfigManager with every role's model loaded as m
ConfigManager(m) == [r \in Roles |-> m]

\* ConfigManager.set("<role>_model.<field>", value): the nested dict of the
\* role is updated in place
ConfigSet(cm, role, field, value) == [cm EXCEPT ![role][field] = value]

\* an attempt about to make its first stage call with the request's model m
NewDispatch(m) ==
    [pc |-> "set_provider", stage |-> 1, config |-> m,
     provider |-> "", model_name |-> "", called |-> <<>>]

\* an attempt that makes no stage call
NoDispatch == [NewDispatch(Gpt4oMini) EXCEPT !.pc = "done"]

\* no attempt is dispatching; the configuration names the model the runs request
IdleConfig ==
    /\ config_manager = ConfigManager(Gpt4oMini)
    /\ dispatch = [a \in ConfigAttempts |-> NoDispatch]

(***************************************************************************)
(* CheckerAgent.validate in equivalence mode and the CAS verifier          *)
(* (confidences are in thousandths)                                         *)
(***************************************************************************)
NumTests == 9              \* len(test_values) of _check_numerical_equivalence
HighConfidence == 800      \* the 0.8 a CAS confidence must exceed to override
NumericalThreshold == 900  \* the 0.9 of equal test points that counts as equivalent

\* no numerical comparison was made
NoNumericalCheck == [equivalent |-> FALSE, confidence |-> -1]

\* _check_numerical_equivalence: constants are compared directly; expressions
\* with symbols are compared at NumTests points, of which equal agree
_check_numerical_equivalence(kind, equal) ==
    CASE kind = "constants_equal" -> [equivalent |-> TRUE, confidence |-> 1000]
      [] kind = "constants_differ" -> [equivalent |-> FALSE, confidence |-> 0]
      [] kind = "sampled" ->
            LET confidence == (equal * 1000) \div NumTests
            IN IF confidence >= NumericalThreshold
               THEN [equivalent |-> TRUE, confidence |-> confidence]
               ELSE [equivalent |-> FALSE, confidence |-> 1000 - confidence]
      [] OTHER -> [equivalent |-> FALSE, confidence |-> 0]

\* what the verifier can come to: the branch verify_with_cas ends in and, for
\* the numerical comparison, its kind and the number of equal test points
CasOutcomes ==
    [path : {"cas_unavailable", "parsing_failed", "algebraic_equivalence",
             "simplified_equivalence", "cas_error", "raises"},
     kind : {"none"}, equal : {0}]
    \cup [path : {"numerical"}, kind : {"constants_equal", "constants_differ", "no_tests"},
          equal : {0}]
    \cup [path : {"numerical"}, kind : {"sampled"}, equal : 0..NumTests]

\* the dict a verification returns; confidence -1 stands for a dict without
\* the key, numerical_check is the local of verify_algebraic_equation
CasResult(verified, method, confidence, numerical_check) ==
    [verified |-> verified, method |-> method, confidence |-> confidence,
     numerical_check |-> numerical_check]

NoCasResult == CasResult(FALSE, "none", -1, NoNumericalCheck)

\* verify_algebraic_equation, by the branch it ends in
verify_algebraic_equation(o) ==
    CASE o.path = "parsing_failed" ->
            CasResult(FALSE, "parsing_failed", -1, NoNumericalCheck)
      [] o.path = "algebraic_equivalence" ->
            CasResult(TRUE, "algebraic_equivalence", 1000, NoNumericalCheck)
      [] o.path = "simplified_equivalence" ->
            CasResult(TRUE, "simplified_equivalence", 950, NoNumericalCheck)
      [] o.path = "numerical" ->
            LET numerical_check == _check_numerical_equivalence(o.kind, o.equal)
            IN IF numerical_check.equivalent
               THEN CasResult(TRUE, "numerical_equivalence",
                              numerical_check.confidence, numerical_check)
               ELSE CasResult(FALSE, "algebraic_comparison", 0, numerical_check)
      [] OTHER -> CasResult(FALSE, "cas_error", -1, NoNumericalCheck)

\* verify_with_cas for a problem that is not a calculus problem
verify_with_cas(o) ==
    IF o.path = "cas_unavailable"
    THEN CasResult(FALSE, "cas_unavailable", 0, NoNumericalCheck)
    ELSE verify_algebraic_equation(o)

\* cas_result.get("confidence", 0)
CasConfidence(cas) == IF cas.confidence = -1 THEN 0 ELSE cas.confidence

\* the if / elif of validate that lets a confident CAS result replace the
\* verdict of the LLM
CasOverride(v) ==
    IF v.cas.verified /\ CasConfidence(v.cas) > HighConfidence
    THEN IF ~v.is_valid
         THEN [v EXCEPT !.is_valid = TRUE,
                        !.equivalence_confidence = Max(@, CasConfidence(v.cas))]
         ELSE v
    ELSE IF ~v.cas.verified /\ CasConfidence(v.cas) > HighConfidence
    THEN IF v.is_valid
         THEN [v EXCEPT !.is_valid = FALSE,
                        !.equivalence_confidence = Min(@, 1000 - CasConfidence(v.cas))]
         ELSE v
    ELSE v

\* validate has not been called
NoValidation ==
    [pc |-> "idle", judge_valid |-> FALSE, is_valid |-> FALSE,
     equivalence_confidence |-> 0, cas |-> NoCasResult, cas_raised |-> FALSE]

IdleJudge == validation = NoValidation

\* the state of the libraries when nothing has called them
IdleLibraries ==
    /\ llm_cache = LLMCache(1, 1, TRUE, FALSE)
    /\ cache_call = NoCacheCall
    /\ cache_requests = {}
    /\ cache_tracked = NoTrackedPut
    /\ cache_recency = [k \in CacheKeys |-> 0]
    /\ llm_client = LLMClient({})
    /\ client_call = NoClientCall
    /\ pipeline = NewPipeline("")
    /\ IdleCostTracker
    /\ adapted_at = 0
    /\ cache_worker = NoCacheWorker
    /\ IdleConfig
    /\ IdleJudge

(***************************************************************************)
(* ConcurrentProcessor                                                     *)
(***************************************************************************)
\* ConcurrentProcessor.__init__: the pool built from config["max_workers"]
ProcessorPool(baseline) ==
    AdaptiveThreadPool(baseline,
                  Max(FloorWorkers, baseline \div 4),
                  Min(CapWorkers, baseline * 3))

\* the paths the attempts of a run can take
Scenarios ==
    { {"judge_invalid"}, {"judge_valid"}, {"few_hints"}, {"engineer_raises"},
      {"judge_invalid", "judge_valid"}, {"judge_invalid", "target_raises"},
      {"judge_valid", "checker_raises"}, {"initial_invalid", "judge_raises"},
      {"initial_invalid", "setup_raises"} }

\* the configurations of the modelled runs; runs with the larger ceiling or with
\* a raising callback have attempts that all take the same path
RunConfigs ==
    {c \in [baseline : 1..MaxBaseline, target : 1..MaxTarget,
            ceiling : CeilingChoices, scenario : Scenarios, callback : BOOLEAN] :
        /\ c.ceiling > BaseCeiling => ~c.callback
        /\ (c.ceiling > BaseCeiling \/ c.callback) => Cardinality(c.scenario) = 1}

\* the state after ConcurrentProcessor.__init__ with configuration c, before
\* process_batch is called
Constructed(c) ==
    /\ thread_pool = ProcessorPool(c.baseline)
    /\ target_count = c.target
    /\ max_attempts = c.ceiling
    /\ scenario = c.scenario
    /\ callback_raises = c.callback
    /\ attempt_counter = 0
    /\ approved_count = 0
    /\ accepted = <<>>
    /\ discarded = <<>>
    /\ errors = <<>>
    /\ futures = <<>>
    /\ current_workers = 0
    /\ completed_futures = <<>>
    /\ executor_workers = 0
    /\ tasks = <<>>
    /\ pc = "init"
    /\ attempt = NewAttempt(FALSE)
    /\ IdleLibraries

Init == \E c \in RunConfigs : Constructed(c)

(***************************************************************************)
(* Executor worker threads: _process_single_task                           *)
(***************************************************************************)
NewTask == [st |-> "queued", res |-> "none", raised |-> FALSE]

Running == {n \in 1..Len(tasks) : tasks[n].st = "running"}
Queued == {n \in 1..Len(tasks) : tasks[n].st = "queued"}
IsDone(n) == tasks[n].st = "done"

\* ResultType without the except branch: the exception is handed on
ResultType_NoExcept(out) == out

\* result_type returned by _process_single_task when task_func returns out or,
\* for "raised", raises: the except branch answers "error"
ResultType(out) == IF out = "raised" THEN "error" ELSE out

\* success flag handed to record_task_result
TaskSuccess(out) == ResultType(out) = "accepted"

\* StartTask with one worker thread fewer than the executor was sized for
StartTask_OneWorkerShort ==
    /\ Queued # {}
    /\ Cardinality(Running) < executor_workers - 1
    /\ LET n == CHOOSE m \in Queued : \A k \in Queued : m <= k
       IN tasks' = [tasks EXCEPT ![n] =
                      IF should_stop(thread_pool)
                      THEN [st |-> "done", res |-> "stopped", raised |-> FALSE]
                      ELSE [@ EXCEPT !.st = "running"]]
    /\ UNCHANGED <<thread_pool, target_count, max_attempts, attempt_counter,
                   approved_count, accepted, discarded, errors, futures,
                   current_workers, completed_futures, executor_workers,
                   scenario, callback_raises, pc, attempt, libVars>>

\* a free worker thread takes the oldest queued work item; the stop check of
\* _process_single_task answers "stopped" without running task_func
StartTask ==
    /\ Queued # {}
    /\ Cardinality(Running) < executor_workers
    /\ LET n == CHOOSE m \in Queued : \A k \in Queued : m <= k
       IN tasks' = [tasks EXCEPT ![n] =
                      IF should_stop(thread_pool)
                      THEN [st |-> "done", res |-> "stopped", raised |-> FALSE]
                      ELSE [@ EXCEPT !.st = "running"]]
    /\ UNCHANGED <<thread_pool, target_count, max_attempts, attempt_counter,
                   approved_count, accepted, discarded, errors, futures,
                   current_workers, completed_futures, executor_workers,
                   scenario, callback_raises, pc, attempt, libVars>>

\* FinishTask with a stop signal that interrupts the running attempt
FinishTask_Interrupted(n, path) ==
    /\ n \in Running
    /\ path \in scenario
    /\ LET out == PathOutcome(path)
       IN /\ tasks' = [tasks EXCEPT ![n] =
                         [st |-> "done",
                          res |-> IF should_stop(thread_pool) THEN "stopped"
                                  ELSE ResultType(out),
                          raised |-> (path \in RaisingPaths)]]
          /\ thread_pool' = record_task_result(thread_pool, TaskSuccess(out))
    /\ UNCHANGED <<target_count, max_attempts, attempt_counter,
                   approved_count, accepted, discarded, errors, futures,
                   current_workers, completed_futures, executor_workers,
                   scenario, callback_raises, pc, attempt, libVars>>

\* task_func returns (or raises) in attempt n, which took the given path; the
\* outcome is recorded in the pool
FinishTask(n, path) ==
    /\ n \in Running
    /\ path \in scenario
    /\ LET out == PathOutcome(path)
       IN /\ tasks' = [tasks EXCEPT ![n] =
                         [st |-> "done", res |-> ResultType(out),
                          raised |-> (path \in RaisingPaths)]]
          /\ thread_pool' = record_task_result(thread_pool, TaskSuccess(out))
    /\ UNCHANGED <<target_count, max_attempts, attempt_counter,
                   approved_count, accepted, discarded, errors, futures,
                   current_workers, completed_futures, executor_workers,
                   scenario, callback_raises, pc, attempt, libVars>>

(***************************************************************************)
(* ConcurrentProcessor.process_batch                                       *)
(***************************************************************************)
\* condition of the outer while loop
OuterLoopCond ==
    /\ approved_count < target_count
    /\ ~should_stop(thread_pool)
    /\ attempt_counter < max_attempts

\* InnerLoopCond without the factor that keeps the pipeline full
InnerLoopCond_NoFactor ==
    /\ Len(futures) < current_workers
    /\ approved_count < target_count
    /\ ~should_stop(thread_pool)

\* condition of the inner (submitting) while loop
InnerLoopCond ==
    /\ Len(futures) < current_workers * PipelineFactor
    /\ approved_count < target_count
    /\ ~should_stop(thread_pool)

\* entering the with block: the executor is sized by get_current_workers()
Begin ==
    /\ pc = "init"
    /\ thread_pool' = get_current_workers(thread_pool)
    /\ executor_workers' = thread_pool'.current_workers
    /\ adapted_at' = AdaptedAt(thread_pool, adapted_at)
    /\ pc' = "loop"
    /\ UNCHANGED <<target_count, max_attempts, attempt_counter, approved_count,
                   accepted, discarded, errors, futures, current_workers,
                   completed_futures, tasks, scenario, callback_raises, attempt,
                   cacheVars, clientVars, costVars, workerVars, configVars, judgeVars>>

\* LoopHead that keeps the worker count read before the adaptation
LoopHead_StaleWorkers ==
    /\ pc = "loop"
    /\ IF OuterLoopCond
       THEN /\ thread_pool' = get_current_workers(thread_pool)
            /\ current_workers' = thread_pool.current_workers
            /\ adapted_at' = AdaptedAt(thread_pool, adapted_at)
            /\ pc' = "submit"
       ELSE /\ pc' = "shutdown"
            /\ UNCHANGED <<thread_pool, current_workers, adapted_at>>
    /\ UNCHANGED <<target_count, max_attempts, attempt_counter, approved_count,
                   accepted, discarded, errors, futures, completed_futures,
                   executor_workers, tasks, scenario, callback_raises, attempt,
                   cacheVars, clientVars, costVars, workerVars, configVars, judgeVars>>

\* head of the outer loop and the call of get_current_workers that follows it
LoopHead ==
    /\ pc = "loop"
    /\ IF OuterLoopCond
       THEN /\ thread_pool' = get_current_workers(thread_pool)
            /\ current_workers' = thread_pool'.current_workers
            /\ adapted_at' = AdaptedAt(thread_pool, adapted_at)
            /\ pc' = "submit"
       ELSE /\ pc' = "shutdown"
            /\ UNCHANGED <<thread_pool, current_workers, adapted_at>>
    /\ UNCHANGED <<target_count, max_attempts, attempt_counter, approved_count,
                   accepted, discarded, errors, futures, completed_futures,
                   executor_workers, tasks, scenario, callback_raises, attempt,
                   cacheVars, clientVars, costVars, workerVars, configVars, judgeVars>>

\* one pass of the inner loop: executor.submit of the next attempt
SubmitTask ==
    /\ pc = "submit"
    /\ InnerLoopCond
    /\ attempt_counter' = attempt_counter + 1
    /\ tasks' = Append(tasks, NewTask)
    /\ futures' = Append(futures, attempt_counter + 1)
    /\ UNCHANGED <<thread_pool, target_count, max_attempts, approved_count,
                   accepted, discarded, errors, current_workers,
                   completed_futures, executor_workers, scenario,
                   callback_raises, pc, attempt, libVars>>

\* the inner loop ends; "if not futures: break", else the scan for done futures
EndSubmit ==
    /\ pc = "submit"
    /\ ~InnerLoopCond
    /\ IF futures = <<>>
       THEN pc' = "shutdown" /\ UNCHANGED completed_futures
       ELSE LET done == SelectSeq(futures, IsDone)
            IN /\ completed_futures' = done
               /\ pc' = IF done = <<>> THEN "wait" ELSE "drain"
    /\ UNCHANGED <<thread_pool, target_count, max_attempts, attempt_counter,
                   approved_count, accepted, discarded, errors, futures,
                   current_workers, executor_workers, tasks, scenario,
                   callback_raises, attempt, libVars>>

\* as_completed(futures, timeout=1.0) yields a finished future
WaitFirst ==
    /\ pc = "wait"
    /\ \E i \in 1..Len(futures) :
          /\ IsDone(futures[i])
          /\ completed_futures' = <<futures[i]>>
    /\ pc' = "drain"
    /\ UNCHANGED <<thread_pool, target_count, max_attempts, attempt_counter,
                   approved_count, accepted, discarded, errors, futures,
                   current_workers, executor_workers, tasks, scenario,
                   callback_raises, attempt, libVars>>

\* as_completed times out with no future finished: "continue"
WaitTimeout ==
    /\ pc = "wait"
    /\ \A i \in 1..Len(futures) : ~IsDone(futures[i])
    /\ pc' = "loop"
    /\ UNCHANGED <<thread_pool, target_count, max_attempts, attempt_counter,
                   approved_count, accepted, discarded, errors, futures,
                   current_workers, completed_futures, executor_workers, tasks,
                   scenario, callback_raises, attempt, libVars>>

\* _update_results for one drained future: r holds the three lists and approved_count
_update_results(r, result_type, attempt_num) ==
    IF result_type = "accepted"
    THEN [r EXCEPT !.accepted = Append(@, attempt_num), !.approved_count = @ + 1]
    ELSE IF result_type = "discarded"
    THEN [r EXCEPT !.discarded = Append(@, attempt_num)]
    ELSE IF result_type = "error"
    THEN [r EXCEPT !.errors = Append(@, [att |-> attempt_num, future_error |-> FALSE])]
    ELSE r

\* body of "for future in completed_futures" for one future: _update_results, then
\* progress_callback; a raising callback lands in the except branch, which appends
\* a future_error entry to errors
DrainOne(r, attempt_num, callbackFails) ==
    LET u == _update_results(r, tasks[attempt_num].res, attempt_num)
    IN IF callbackFails
       THEN [u EXCEPT !.errors = Append(@, [att |-> attempt_num, future_error |-> TRUE])]
       ELSE u

RECURSIVE DrainAll(_, _, _)
\* the whole for loop over the sequence fs; failing: the futures whose callback raises
DrainAll(r, fs, failing) ==
    IF fs = <<>> THEN r
    ELSE DrainAll(DrainOne(r, Head(fs), Head(fs) \in failing), Tail(fs), failing)

InSeq(x, sq) == \E i \in 1..Len(sq) : sq[i] = x

StillPending(n) == ~InSeq(n, completed_futures)

\* the for loop over completed_futures and the early-stop check that follows it
Drain ==
    /\ pc = "drain"
    /\ \E failing \in SUBSET {completed_futures[i] : i \in 1..Len(completed_futures)} :
          /\ (failing # {}) => callback_raises
          /\ LET r == DrainAll([accepted |-> accepted, discarded |-> discarded,
                                errors |-> errors, approved_count |-> approved_count],
                               completed_futures, failing)
             IN /\ accepted' = r.accepted
                /\ discarded' = r.discarded
                /\ errors' = r.errors
                /\ approved_count' = r.approved_count
                /\ IF r.approved_count >= target_count
                   THEN thread_pool' = signal_stop(thread_pool) /\ pc' = "shutdown"
                   ELSE thread_pool' = thread_pool /\ pc' = "loop"
    /\ futures' = SelectSeq(futures, StillPending)
    /\ tasks' = [n \in 1..Len(tasks) |->
                   IF InSeq(n, completed_futures)
                   THEN [tasks[n] EXCEPT !.st = "drained", !.res = "none"] ELSE tasks[n]]
    /\ completed_futures' = <<>>
    /\ UNCHANGED <<target_count, max_attempts, attempt_counter, current_workers,
                   executor_workers, scenario, callback_raises, attempt, libVars>>

\* leaving the with block: executor.shutdown(wait=True) returns once every
\* submitted work item has run; then process_batch returns the three lists
Shutdown ==
    /\ pc = "shutdown"
    /\ \A n \in 1..Len(tasks) : tasks[n].st \in {"done", "drained"}
    /\ pc' = "done"
    /\ UNCHANGED <<thread_pool, target_count, max_attempts, attempt_counter,
                   approved_count, accepted, discarded, errors, futures,
                   current_workers, completed_futures, executor_workers, tasks,
                   scenario, callback_raises, attempt, libVars>>

\* wall-clock time passes; the clock is read only by get_current_workers, which
\* process_batch calls from "init" and "loop", so time that passed anywhere since
\* the previous read is accounted for right before the next one
Tick ==
    /\ pc \in {"init", "loop"}
    /\ thread_pool.elapsed <= AdaptCooldown
    /\ \E dt \in ClockDeltas : thread_pool' = AdvanceClock(thread_pool, dt)
    /\ UNCHANGED <<procVars, attemptVars, libVars>>

Next ==
    \/ Begin
    \/ LoopHead
    \/ SubmitTask
    \/ EndSubmit
    \/ WaitFirst
    \/ WaitTimeout
    \/ Drain
    \/ Shutdown
    \/ StartTask
    \/ \E n \in 1..Len(tasks), path \in Paths : FinishTask(n, path)
    \/ Tick

Spec == Init /\ [][Next]_vars

\* a run from a baseline large enough for the pool to shrink below its initial
\* worker count, with a ceiling that lets the loop go on after the first
\* top-up; the Target solves every problem, so that no attempt is accepted
InitShrink ==
    Constructed([baseline |-> ShrinkBaseline, target |-> 1,
                 ceiling |-> ShrinkBaseline * PipelineFactor + 1,
                 scenario |-> {"judge_valid"}, callback |-> FALSE])

SpecShrink == InitShrink /\ [][Next]_vars

(***************************************************************************)
(* One attempt, call by call                                               *)
(***************************************************************************)
\* a processor on which process_batch is not running
IdleProcessor ==
    /\ target_count = 1
    /\ max_attempts = BaseCeiling
    /\ scenario = {}
    /\ callback_raises = FALSE
    /\ attempt_counter = 0
    /\ approved_count = 0
    /\ accepted = <<>>
    /\ discarded = <<>>
    /\ errors = <<>>
    /\ futures = <<>>
    /\ current_workers = 0
    /\ completed_futures = <<>>
    /\ executor_workers = 0
    /\ tasks = <<>>
    /\ pc = "idle"

InitAttempt ==
    /\ thread_pool = ProcessorPool(1)
    /\ IdleProcessor
    /\ IdleLibraries
    /\ \E u \in BOOLEAN, f \in SUBSET LogStages :
          attempt = [NewAttempt(u) EXCEPT !.log_fails = f]

SelectTopic ==
    /\ attempt.stage = "Start"
    /\ \E pre \in PreChoices : attempt' = SelectStep(attempt, pre)
    /\ UNCHANGED <<thread_pool, procVars, libVars>>

CallEngineer ==
    /\ attempt.stage = "Selected"
    /\ \E resp \in EngineerResponses : attempt' = EngineerStep(attempt, resp)
    /\ UNCHANGED <<thread_pool, procVars, libVars>>

CallCheckerInitial ==
    /\ attempt.stage = "Generated"
    /\ \E resp \in CheckerResponses : attempt' = CheckerStep(attempt, resp)
    /\ UNCHANGED <<thread_pool, procVars, libVars>>

CallTarget ==
    /\ attempt.stage = "InitiallyValidated"
    /\ \E resp \in TargetResponses : attempt' = TargetStep(attempt, resp)
    /\ UNCHANGED <<thread_pool, procVars, libVars>>

CallCheckerEquivalence ==
    /\ attempt.stage = "TargetAttempted"
    /\ \E resp \in FinalResponses, sim \in SimilarityResponses :
          attempt' = EquivalenceStep(attempt, resp, sim)
    /\ UNCHANGED <<thread_pool, procVars, libVars>>

NextAttempt ==
    \/ SelectTopic
    \/ CallEngineer
    \/ CallCheckerInitial
    \/ CallTarget
    \/ CallCheckerEquivalence

SpecAttempt == InitAttempt /\ [][NextAttempt]_vars

\* one attempt whose Engineer result carries any of the problem texts and answers
InitTarget ==
    /\ thread_pool = ProcessorPool(1)
    /\ IdleProcessor
    /\ IdleLibraries
    /\ \E q \in Problems, w \in Answers :
          attempt = [NewAttempt(FALSE) EXCEPT
                        !.engineer_output = [problem |-> q, answer |-> w]]

SpecTarget == InitTarget /\ [][NextAttempt]_vars

(***************************************************************************)
(* The pool driven through its API                                         *)
(***************************************************************************)
InitPool ==
    /\ \E b \in 1..MaxPoolBaseline : thread_pool = ProcessorPool(b)
    /\ IdleProcessor
    /\ IdleLibraries
    /\ attempt = NewAttempt(FALSE)

PoolRecordTaskResult ==
    /\ thread_pool.completed_tasks < MaxCompleted
    /\ \E success \in BOOLEAN : thread_pool' = record_task_result(thread_pool, success)
    /\ UNCHANGED <<procVars, attemptVars, libVars>>

PoolGetCurrentWorkers ==
    /\ thread_pool' = get_current_workers(thread_pool)
    /\ adapted_at' = AdaptedAt(thread_pool, adapted_at)
    /\ UNCHANGED <<procVars, attemptVars, cacheVars, clientVars, costVars, workerVars, configVars, judgeVars>>

PoolSignalStop ==
    /\ thread_pool' = signal_stop(thread_pool)
    /\ UNCHANGED <<procVars, attemptVars, libVars>>

PoolTick ==
    /\ thread_pool.elapsed <= AdaptCooldown
    /\ \E dt \in ClockDeltas : thread_pool' = AdvanceClock(thread_pool, dt)
    /\ UNCHANGED <<procVars, attemptVars, libVars>>

NextPool ==
    \/ PoolRecordTaskResult
    \/ PoolGetCurrentWorkers
    \/ PoolSignalStop
    \/ PoolTick

SpecPool == InitPool /\ [][NextPool]_vars

(***************************************************************************)
(* The cache driven through its API                                        *)
(***************************************************************************)
HeldKeys(c) == {k \in CacheKeys : InCache(c, k)}

\* ranks of the held keys by last use, 1 for the least recently used
Rerank(rec, held) ==
    [k \in CacheKeys |->
        IF k \notin held THEN 0
        ELSE Cardinality({j \in held : rec[j] <= rec[k]})]

\* the ranks after a call that used key k (or used nothing) and left held
UseOf(rec, used, k, held) ==
    Rerank(IF used THEN [rec EXCEPT ![k] = Cardinality(CacheKeys) + 1] ELSE rec, held)

\* the caches and callers of the modelled runs; a cache that is switched off
\* or keeps files holds one entry and is asked two requests, and the requests
\* that differ in one part go to a cache of one entry
CacheConfigs ==
    {c \in [max_size : 1..MaxSize, ttl_seconds : 1..MaxTtl,
            enabled : BOOLEAN, persistent : BOOLEAN,
            requests : {PoolSpelling, PoolDistinct, PoolSmall}] :
        /\ (~c.enabled \/ c.persistent) => (c.max_size = 1 /\ c.requests = PoolSmall)
        /\ c.requests = PoolSpelling => c.max_size = 1
        /\ ~c.enabled => ~c.persistent}

InitCache ==
    /\ thread_pool = ProcessorPool(1)
    /\ IdleProcessor
    /\ attempt = NewAttempt(FALSE)
    /\ \E c \in CacheConfigs :
          /\ llm_cache = LLMCache(c.max_size, c.ttl_seconds, c.enabled, c.persistent)
          /\ cache_requests = c.requests
    /\ cache_call = NoCacheCall
    /\ cache_tracked = NoTrackedPut
    /\ cache_recency = [k \in CacheKeys |-> 0]
    /\ llm_client = LLMClient({})
    /\ client_call = NoClientCall
    /\ pipeline = NewPipeline("")
    /\ IdleCostTracker
    /\ adapted_at = 0
    /\ cache_worker = NoCacheWorker
    /\ IdleConfig
    /\ IdleJudge

CachePut ==
    \E req \in cache_requests, response \in CacheResponses :
        LET k == _generate_cache_key(req)
            after == put(llm_cache, req, response)
        IN  /\ llm_cache' = after
            /\ cache_call' = [op |-> "put", request |-> req, response |-> response,
                              evicted |-> HeldKeys(llm_cache) \ HeldKeys(after)]
            /\ cache_tracked' =
                  IF \/ cache_tracked = NoTrackedPut
                     \/ cache_tracked.key = k
                  THEN [key |-> k, value |-> req.temperature.value,
                        response |-> response, time |-> llm_cache.now]
                  ELSE cache_tracked
            /\ cache_recency' =
                  UseOf(cache_recency, llm_cache.cache_enabled, k, HeldKeys(after))
            /\ UNCHANGED <<coreVars, poolObs, workerVars, configVars, judgeVars, clientVars, costVars, cache_requests>>

CacheGet ==
    \E req \in cache_requests :
        LET k == _generate_cache_key(req)
            got == get(llm_cache, req)
        IN  /\ llm_cache' = got.cache
            /\ cache_call' = [op |-> "get", request |-> req, response |-> got.response,
                              evicted |-> (HeldKeys(llm_cache) \ HeldKeys(got.cache)) \ {k}]
            /\ cache_recency' =
                  UseOf(cache_recency, got.response # NoResponse, k, HeldKeys(got.cache))
            /\ UNCHANGED <<coreVars, poolObs, workerVars, configVars, judgeVars, clientVars, costVars, cache_requests, cache_tracked>>

CacheClear ==
    /\ llm_cache' = clear(llm_cache)
    /\ cache_call' = [NoCacheCall EXCEPT !.op = "clear"]
    /\ cache_tracked' = NoTrackedPut
    /\ cache_recency' = [k \in CacheKeys |-> 0]
    /\ UNCHANGED <<coreVars, poolObs, workerVars, configVars, judgeVars, clientVars, costVars, cache_requests>>

\* a second passes; what the last call returned is no longer looked at
CacheTick ==
    /\ llm_cache.now < MaxClock
    /\ llm_cache' = [llm_cache EXCEPT !.now = @ + 1]
    /\ cache_call' = NoCacheCall
    /\ UNCHANGED <<coreVars, poolObs, workerVars, configVars, judgeVars, clientVars, costVars, cache_requests, cache_tracked, cache_recency>>

NextCache ==
    \/ CachePut
    \/ CacheGet
    \/ CacheClear
    \/ CacheTick

SpecCache == InitCache /\ [][NextCache]_vars

(***************************************************************************)
(* A cache shared by threads: one puts a response and gets it back while   *)
(* the others call put, get and clear; every call holds the lock of the    *)
(* cache from its first access to its return                               *)
(***************************************************************************)
InitShared ==
    /\ thread_pool = ProcessorPool(1)
    /\ IdleProcessor
    /\ attempt = NewAttempt(FALSE)
    /\ \E c \in CacheConfigs :
          /\ c.requests # PoolSpelling
          /\ llm_cache = LLMCache(c.max_size, c.ttl_seconds, c.enabled, c.persistent)
          /\ cache_requests = c.requests
    /\ cache_call = NoCacheCall
    /\ cache_tracked = NoTrackedPut
    /\ cache_recency = [k \in CacheKeys |-> 0]
    /\ llm_client = LLMClient({})
    /\ client_call = NoClientCall
    /\ pipeline = NewPipeline("")
    /\ IdleCostTracker
    /\ adapted_at = 0
    /\ cache_worker = NoCacheWorker
    /\ IdleConfig
    /\ IdleJudge

SharedFrame ==
    UNCHANGED <<coreVars, poolObs, configVars, judgeVars, clientVars, costVars, cache_requests, cache_call,
                cache_tracked, cache_recency>>

\* the keys put so far, after a put under key k
Inserted(k) ==
    IF llm_cache.cache_enabled THEN cache_worker.inserted \cup {k}
    ELSE cache_worker.inserted

\* cache_worker: self.cache.put(...)
WorkerPut ==
    /\ cache_worker.pc = "start"
    /\ \E req \in cache_requests, response \in CacheResponses :
          /\ llm_cache' = put(llm_cache, req, response)
          /\ cache_worker' = [cache_worker EXCEPT
                                 !.pc = "stored", !.request = req, !.response = response,
                                 !.age = llm_cache.now,
                                 !.inserted = Inserted(_generate_cache_key(req))]
    /\ SharedFrame

\* cache_worker: cached = self.cache.get(...)
WorkerGet ==
    /\ cache_worker.pc = "stored"
    /\ LET got == get(llm_cache, cache_worker.request)
       IN  /\ llm_cache' = got.cache
           /\ cache_worker' = [cache_worker EXCEPT
                                  !.pc = "read", !.got = got.response,
                                  !.age = llm_cache.now - @]
    /\ SharedFrame

\* another thread calls put
OtherPut ==
    /\ \E req \in cache_requests, response \in CacheResponses :
          /\ llm_cache' = put(llm_cache, req, response)
          /\ cache_worker' = [cache_worker EXCEPT
                                 !.inserted = Inserted(_generate_cache_key(req)),
                                 !.disturbed =
                                     \/ @
                                     \/ /\ cache_worker.pc = "stored"
                                        /\ _generate_cache_key(req)
                                             = _generate_cache_key(cache_worker.request)]
    /\ SharedFrame

\* another thread calls get
OtherGet ==
    /\ \E req \in cache_requests : llm_cache' = get(llm_cache, req).cache
    /\ UNCHANGED cache_worker
    /\ SharedFrame

\* another thread calls clear
OtherClear ==
    /\ llm_cache' = clear(llm_cache)
    /\ cache_worker' = [cache_worker EXCEPT !.disturbed = @ \/ cache_worker.pc = "stored"]
    /\ SharedFrame

\* a second passes
SharedTick ==
    /\ llm_cache.now < MaxClock
    /\ llm_cache' = [llm_cache EXCEPT !.now = @ + 1]
    /\ UNCHANGED cache_worker
    /\ SharedFrame

NextShared ==
    \/ WorkerPut
    \/ WorkerGet
    \/ OtherPut
    \/ OtherGet
    \/ OtherClear
    \/ SharedTick

SpecShared == InitShared /\ [][NextShared]_vars

(***************************************************************************)
(* A run as seen from the client: the stage calls of its attempts           *)
(***************************************************************************)
IdleCache ==
    /\ llm_cache = LLMCache(1, 1, TRUE, FALSE)
    /\ cache_call = NoCacheCall
    /\ cache_requests = {}
    /\ cache_tracked = NoTrackedPut
    /\ cache_recency = [k \in CacheKeys |-> 0]

InitClient ==
    /\ thread_pool = ProcessorPool(1)
    /\ IdleProcessor
    /\ attempt = NewAttempt(FALSE)
    /\ IdleCache
    /\ \E keys \in SUBSET SupportedProviders : llm_client = LLMClient(keys)
    /\ client_call = NoClientCall
    /\ \E provider \in ClientProviders \cup {""} : pipeline = NewPipeline(provider)
    /\ IdleCostTracker
    /\ adapted_at = 0
    /\ cache_worker = NoCacheWorker
    /\ IdleConfig
    /\ IdleJudge

\* run_generation_pipeline up to the start of the processing
PipelineStart ==
    /\ pipeline.pc = "startup"
    /\ pipeline' = [pipeline EXCEPT !.pc = IF ValidModelConfig(pipeline.provider)
                                           THEN "running" ELSE "aborted"]
    /\ UNCHANGED <<coreVars, poolObs, workerVars, configVars, judgeVars, cacheVars, costVars, llm_client, client_call>>

\* an attempt is launched and its stage calls call_model
AttemptCallsModel ==
    /\ pipeline.pc = "running"
    /\ client_call.pc # "loop"
    /\ pipeline.launched < MaxCalls
    /\ \E prompt \in ClientPrompts, max_retries \in 1..MaxRetries,
          retry_delay \in RetryDelays, thread_hash \in ThreadHashes :
          client_call' = StartCall(pipeline.provider, prompt, max_retries,
                                   retry_delay, thread_hash)
    /\ pipeline' = [pipeline EXCEPT !.launched = @ + 1]
    /\ UNCHANGED <<coreVars, poolObs, workerVars, configVars, judgeVars, cacheVars, costVars, llm_client>>

\* one pass of the retry loop of call_model
ClientTry ==
    /\ client_call.pc = "loop"
    /\ LoopContinues(client_call)
    /\ \/ /\ CanContact(llm_client, client_call)
          /\ client_call' = TryReturns(client_call)
          /\ llm_client' = [llm_client EXCEPT !.answered[client_call.prompt] = @ + 1]
       \/ /\ client_call' = TryRaises(client_call, CanContact(llm_client, client_call))
          /\ UNCHANGED llm_client
    /\ UNCHANGED <<coreVars, poolObs, workerVars, configVars, judgeVars, cacheVars, costVars, pipeline>>

\* the loop is over: call_model raises APIError and the attempt ends as an error
ClientExhausted ==
    /\ client_call.pc = "loop"
    /\ ~LoopContinues(client_call)
    /\ client_call' = RaiseAPIError(client_call)
    /\ pipeline' = [pipeline EXCEPT !.errors = @ + 1]
    /\ UNCHANGED <<coreVars, poolObs, workerVars, configVars, judgeVars, cacheVars, costVars, llm_client>>

NextClient ==
    \/ PipelineStart
    \/ AttemptCallsModel
    \/ ClientTry
    \/ ClientExhausted

SpecClient == InitClient /\ [][NextClient]_vars

(***************************************************************************)
(* The CostTracker of a run: worker threads log, another thread reads       *)
(***************************************************************************)
KnownPairs == {Gpt4oMini, GeminiPro}

\* the sum the logged calls are expected to add up to
Logged(e, args) ==
    LET tokensIn == EstimatedTokens(args.key, args.input_tokens, args.raw_prompt)
        tokensOut == EstimatedTokens(args.key, args.output_tokens, args.raw_output)
        cost == IF args.key \in KnownPairs
                THEN tokensIn * MODEL_PRICING(args.key).input
                     + tokensOut * MODEL_PRICING(args.key).output
                ELSE 0
    IN  [e EXCEPT !.logs = @ + 1, !.total = @ + cost,
                  !.tokens[args.key].input_tokens = @ + tokensIn,
                  !.tokens[args.key].output_tokens = @ + tokensOut]

InitCost ==
    /\ thread_pool = ProcessorPool(1)
    /\ IdleProcessor
    /\ attempt = NewAttempt(FALSE)
    /\ IdleCache
    /\ llm_client = LLMClient({})
    /\ client_call = NoClientCall
    /\ pipeline = NewPipeline("")
    /\ IdleCostTracker
    /\ adapted_at = 0
    /\ cache_worker = NoCacheWorker
    /\ IdleConfig
    /\ IdleJudge

\* log, lines 40-56: the key and the cost of the call, before the lock
LogBegin(t) ==
    /\ cost_threads[t].pc = "idle"
    /\ cost_expected.logs < MaxLogs
    /\ \E args \in LogArgs :
          /\ cost_threads' = [cost_threads EXCEPT ![t] = LogLocals(args)]
          /\ cost_expected' = Logged(cost_expected, args)
    /\ UNCHANGED <<coreVars, poolObs, workerVars, configVars, judgeVars, cacheVars, clientVars, tracker, cost_reader>>

\* log, lines 58-59: the lock is taken and the total is updated
LogAddTotal(t) ==
    /\ cost_threads[t].pc = "acquire"
    /\ tracker.lock = "free"
    /\ tracker' = [AddTotal(tracker, cost_threads[t].total_cost) EXCEPT !.lock = t]
    /\ cost_threads' = [cost_threads EXCEPT ![t].pc = "stats"]
    /\ UNCHANGED <<coreVars, poolObs, workerVars, configVars, judgeVars, cacheVars, clientVars, cost_reader, cost_expected>>

\* log, line 60
LogLookupStats(t) ==
    /\ cost_threads[t].pc = "stats"
    /\ tracker' = LookupStats(tracker, cost_threads[t].key)
    /\ cost_threads' = [cost_threads EXCEPT ![t].pc = "tokens"]
    /\ UNCHANGED <<coreVars, poolObs, workerVars, configVars, judgeVars, cacheVars, clientVars, cost_reader, cost_expected>>

\* log, lines 61-62
LogAddTokens(t) ==
    /\ cost_threads[t].pc = "tokens"
    /\ tracker' = AddTokens(tracker, cost_threads[t])
    /\ cost_threads' = [cost_threads EXCEPT ![t].pc = "cost"]
    /\ UNCHANGED <<coreVars, poolObs, workerVars, configVars, judgeVars, cacheVars, clientVars, cost_reader, cost_expected>>

\* log, line 63 and the end of the with block
LogAddCost(t) ==
    /\ cost_threads[t].pc = "cost"
    /\ tracker' = AddCost(tracker, cost_threads[t])
    /\ cost_threads' = [cost_threads EXCEPT ![t] = IdleLogger]
    /\ UNCHANGED <<coreVars, poolObs, workerVars, configVars, judgeVars, cacheVars, clientVars, cost_reader, cost_expected>>

\* as_dict, line 81: get_total_cost reads self._total_cost
ReadTotal ==
    /\ cost_reader.pc \in {"idle", "done", "failed"}
    /\ cost_reader' = [pc |-> "got_total", total_cost |-> tracker.total_cost,
                       size |-> 0, sum |-> 0]
    /\ UNCHANGED <<coreVars, poolObs, workerVars, configVars, judgeVars, cacheVars, clientVars, tracker, cost_threads, cost_expected>>

\* get_breakdown: the iteration over self._model_stats.items() begins; over an
\* empty dictionary it is over at once
ReadBreakdownStart ==
    /\ cost_reader.pc = "got_total"
    /\ cost_reader' = [cost_reader EXCEPT
                          !.pc = IF StatsKeys(tracker) = {} THEN "done" ELSE "iter",
                          !.size = Cardinality(StatsKeys(tracker))]
    /\ UNCHANGED <<coreVars, poolObs, workerVars, configVars, judgeVars, cacheVars, clientVars, tracker, cost_threads, cost_expected>>

\* get_breakdown: the iteration ends, with RuntimeError("dictionary changed
\* size during iteration") when a key was inserted since it began
ReadBreakdownEnd ==
    /\ cost_reader.pc = "iter"
    /\ cost_reader' = IF Cardinality(StatsKeys(tracker)) # cost_reader.size
                      THEN [cost_reader EXCEPT !.pc = "failed"]
                      ELSE [cost_reader EXCEPT !.pc = "done",
                                               !.sum = SumCosts(tracker, StatsKeys(tracker))]
    /\ UNCHANGED <<coreVars, poolObs, workerVars, configVars, judgeVars, cacheVars, clientVars, tracker, cost_threads, cost_expected>>

NextCost ==
    \/ \E t \in LoggerThreads : LogBegin(t)
    \/ \E t \in LoggerThreads : LogAddTotal(t)
    \/ \E t \in LoggerThreads : LogLookupStats(t)
    \/ \E t \in LoggerThreads : LogAddTokens(t)
    \/ \E t \in LoggerThreads : LogAddCost(t)
    \/ ReadTotal
    \/ ReadBreakdownStart
    \/ ReadBreakdownEnd

SpecCost == InitCost /\ [][NextCost]_vars

(***************************************************************************)
(* Attempts of concurrent requests making their stage calls                *)
(***************************************************************************)
\* two attempts are about to run, each with the models of its own request;
\* the configuration file named one of the models for every role
InitConfig ==
    /\ thread_pool = ProcessorPool(1)
    /\ IdleProcessor
    /\ attempt = NewAttempt(FALSE)
    /\ llm_cache = LLMCache(1, 1, TRUE, FALSE)
    /\ cache_call = NoCacheCall
    /\ cache_requests = {}
    /\ cache_tracked = NoTrackedPut
    /\ cache_recency = [k \in CacheKeys |-> 0]
    /\ llm_client = LLMClient({})
    /\ client_call = NoClientCall
    /\ pipeline = NewPipeline("")
    /\ IdleCostTracker
    /\ adapted_at = 0
    /\ cache_worker = NoCacheWorker
    /\ \E m \in RequestModels : config_manager = ConfigManager(m)
    /\ \E f \in [ConfigAttempts -> RequestModels] :
          dispatch = [a \in ConfigAttempts |-> NewDispatch(f[a])]
    /\ IdleJudge

ConfigFrame ==
    UNCHANGED <<coreVars, cacheVars, clientVars, costVars, poolObs, workerVars, judgeVars>>

\* config_manager.set("<role>_model.provider", config.get("provider", "openai"))
SetProvider(a) ==
    /\ dispatch[a].pc = "set_provider"
    /\ config_manager' = ConfigSet(config_manager, StageRoles[dispatch[a].stage],
                                   "provider", dispatch[a].config.provider)
    /\ dispatch' = [dispatch EXCEPT ![a].pc = "set_model_name"]
    /\ ConfigFrame

\* config_manager.set("<role>_model.model_name", config.get("model_name", "gpt-4"))
SetModelName(a) ==
    /\ dispatch[a].pc = "set_model_name"
    /\ config_manager' = ConfigSet(config_manager, StageRoles[dispatch[a].stage],
                                   "model_name", dispatch[a].config.model_name)
    /\ dispatch' = [dispatch EXCEPT ![a].pc = "read_provider"]
    /\ ConfigFrame

\* Agent.__init__: self.provider = self.model_config.get("provider", "openai"),
\* read from the role's dict of the global configuration
ReadProvider(a) ==
    /\ dispatch[a].pc = "read_provider"
    /\ dispatch' = [dispatch EXCEPT
                      ![a].provider = config_manager[StageRoles[dispatch[a].stage]].provider,
                      ![a].pc = "read_model_name"]
    /\ UNCHANGED config_manager
    /\ ConfigFrame

\* Agent.__init__: self.model_name = self.model_config.get("model_name", "gpt-4")
ReadModelName(a) ==
    /\ dispatch[a].pc = "read_model_name"
    /\ dispatch' = [dispatch EXCEPT
                      ![a].model_name =
                          config_manager[StageRoles[dispatch[a].stage]].model_name,
                      ![a].pc = "call"]
    /\ UNCHANGED config_manager
    /\ ConfigFrame

\* Agent.call_model: llm_client.call_model(provider=self.provider,
\* model_name=self.model_name, ...); the stage call returns and the attempt
\* goes on to its next stage
AgentCallModel(a) ==
    /\ dispatch[a].pc = "call"
    /\ dispatch' = [dispatch EXCEPT
                      ![a].called = <<[provider |-> dispatch[a].provider,
                                       model_name |-> dispatch[a].model_name]>>,
                      ![a].stage = IF @ = Len(StageRoles) THEN @ ELSE @ + 1,
                      ![a].pc = IF dispatch[a].stage = Len(StageRoles)
                                THEN "done" ELSE "set_provider"]
    /\ UNCHANGED config_manager
    /\ ConfigFrame

NextConfig ==
    \E a \in ConfigAttempts :
        \/ SetProvider(a)
        \/ SetModelName(a)
        \/ ReadProvider(a)
        \/ ReadModelName(a)
        \/ AgentCallModel(a)

SpecConfig == InitConfig /\ [][NextConfig]_vars

(***************************************************************************)
(* _run_legacy_pipeline (use_enhanced_concurrent_processing = false)       *)
(***************************************************************************)
\* attempts the legacy loop is followed for: one past the ceiling of the run
LegacyCap == BaseCeiling + 1

\* the runs of the legacy loop: max_workers, num_problems and the paths the
\* attempts can take; config["max_attempts"] is BaseCeiling
LegacyConfigs ==
    [baseline : 1..MaxBaseline, target : 1..MaxTarget, scenario : Scenarios]

\* the locals of _run_legacy_pipeline when the with block is entered
InitLegacy ==
    /\ \E c \in LegacyConfigs :
          /\ thread_pool = ProcessorPool(c.baseline)
          /\ target_count = c.target
          /\ scenario = c.scenario
          /\ executor_workers = c.baseline
    /\ max_attempts = BaseCeiling
    /\ callback_raises = FALSE
    /\ attempt_counter = 0
    /\ approved_count = 0
    /\ accepted = <<>>
    /\ discarded = <<>>
    /\ errors = <<>>
    /\ futures = <<>>
    /\ current_workers = 0
    /\ completed_futures = <<>>
    /\ tasks = <<>>
    /\ pc = "legacy_loop"
    /\ attempt = NewAttempt(FALSE)
    /\ IdleLibraries

\* batch_size = min(max_workers * 2, target_total - approved_count + len(discarded))
batch_size ==
    Min(executor_workers * 2, target_count - approved_count + Len(discarded))

\* condition of the inner (submitting) while loop of the legacy pipeline
LegacyInnerCond ==
    /\ Len(futures) < batch_size
    /\ approved_count < target_count

\* a free worker thread takes the oldest queued attempt
LegacyStartTask ==
    /\ Queued # {}
    /\ Cardinality(Running) < executor_workers
    /\ LET n == CHOOSE m \in Queued : \A k \in Queued : m <= k
       IN tasks' = [tasks EXCEPT ![n].st = "running"]
    /\ UNCHANGED <<thread_pool, target_count, max_attempts, attempt_counter,
                   approved_count, accepted, discarded, errors, futures,
                   current_workers, completed_futures, executor_workers,
                   scenario, callback_raises, pc, attempt, libVars>>

\* _generate_and_validate_prompt returns (or raises) in attempt n
LegacyFinishTask(n, path) ==
    /\ n \in Running
    /\ path \in scenario
    /\ tasks' = [tasks EXCEPT ![n] =
                   [st |-> "done", res |-> PathOutcome(path),
                    raised |-> (PathOutcome(path) = "raised")]]
    /\ UNCHANGED <<thread_pool, target_count, max_attempts, attempt_counter,
                   approved_count, accepted, discarded, errors, futures,
                   current_workers, completed_futures, executor_workers,
                   scenario, callback_raises, pc, attempt, libVars>>

\* head of the outer loop: while approved_count < target_total
LegacyLoopHead ==
    /\ pc = "legacy_loop"
    /\ pc' = IF approved_count < target_count THEN "legacy_submit" ELSE "legacy_shutdown"
    /\ UNCHANGED <<thread_pool, target_count, max_attempts, attempt_counter,
                   approved_count, accepted, discarded, errors, futures,
                   current_workers, completed_futures, executor_workers, tasks,
                   scenario, callback_raises, attempt, libVars>>

\* one pass of the inner loop: executor.submit of the next attempt
LegacySubmit ==
    /\ pc = "legacy_submit"
    /\ LegacyInnerCond
    /\ attempt_counter < LegacyCap
    /\ attempt_counter' = attempt_counter + 1
    /\ tasks' = Append(tasks, NewTask)
    /\ futures' = Append(futures, attempt_counter + 1)
    /\ UNCHANGED <<thread_pool, target_count, max_attempts, approved_count,
                   accepted, discarded, errors, current_workers,
                   completed_futures, executor_workers, scenario,
                   callback_raises, pc, attempt, libVars>>

\* the inner loop ends; "if futures:" and the scan for done futures
LegacyEndSubmit ==
    /\ pc = "legacy_submit"
    /\ ~LegacyInnerCond
    /\ IF futures = <<>>
       THEN pc' = "legacy_loop" /\ UNCHANGED completed_futures
       ELSE LET done == SelectSeq(futures, IsDone)
            IN /\ completed_futures' = done
               /\ pc' = IF done = <<>> THEN "legacy_wait" ELSE "legacy_drain"
    /\ UNCHANGED <<thread_pool, target_count, max_attempts, attempt_counter,
                   approved_count, accepted, discarded, errors, futures,
                   current_workers, executor_workers, tasks, scenario,
                   callback_raises, attempt, libVars>>

\* next(as_completed(futures, timeout=None)): blocks until a future is done
LegacyWaitFirst ==
    /\ pc = "legacy_wait"
    /\ \E i \in 1..Len(futures) :
          /\ IsDone(futures[i])
          /\ completed_futures' = <<futures[i]>>
    /\ pc' = "legacy_drain"
    /\ UNCHANGED <<thread_pool, target_count, max_attempts, attempt_counter,
                   approved_count, accepted, discarded, errors, futures,
                   current_workers, executor_workers, tasks, scenario,
                   callback_raises, attempt, libVars>>

\* body of "for future, attempt_num in completed_futures" for one future:
\* an accepted result is counted, every other result and a raised exception
\* go to discarded
LegacyUpdate(r, result_type, attempt_num) ==
    IF result_type = "accepted"
    THEN [r EXCEPT !.accepted = Append(@, attempt_num), !.approved_count = @ + 1]
    ELSE [r EXCEPT !.discarded = Append(@, attempt_num)]

RECURSIVE LegacyDrainAll(_, _)
LegacyDrainAll(r, fs) ==
    IF fs = <<>> THEN r
    ELSE LegacyDrainAll(LegacyUpdate(r, tasks[Head(fs)].res, Head(fs)), Tail(fs))

\* the for loop over completed_futures, each future removed from futures
LegacyDrain ==
    /\ pc = "legacy_drain"
    /\ LET r == LegacyDrainAll([accepted |-> accepted, discarded |-> discarded,
                                approved_count |-> approved_count], completed_futures)
       IN /\ accepted' = r.accepted
          /\ discarded' = r.discarded
          /\ approved_count' = r.approved_count
    /\ futures' = SelectSeq(futures, StillPending)
    /\ tasks' = [n \in 1..Len(tasks) |->
                   IF InSeq(n, completed_futures)
                   THEN [tasks[n] EXCEPT !.st = "drained", !.res = "none"] ELSE tasks[n]]
    /\ completed_futures' = <<>>
    /\ pc' = "legacy_loop"
    /\ UNCHANGED <<thread_pool, target_count, max_attempts, attempt_counter, errors,
                   current_workers, executor_workers, scenario, callback_raises,
                   attempt, libVars>>

\* leaving the with block once the outer loop has ended: the executor waits
\* for the attempts still in flight, then the lists are returned
LegacyShutdown ==
    /\ pc = "legacy_shutdown"
    /\ \A n \in 1..Len(tasks) : tasks[n].st \in {"done", "drained"}
    /\ pc' = "done"
    /\ UNCHANGED <<thread_pool, target_count, max_attempts, attempt_counter,
                   approved_count, accepted, discarded, errors, futures,
                   current_workers, completed_futures, executor_workers, tasks,
                   scenario, callback_raises, attempt, libVars>>

NextLegacy ==
    \/ LegacyStartTask
    \/ \E n \in Running, path \in Paths : LegacyFinishTask(n, path)
    \/ LegacyLoopHead
    \/ LegacySubmit
    \/ LegacyEndSubmit
    \/ LegacyWaitFirst
    \/ LegacyDrain
    \/ LegacyShutdown

SpecLegacy == InitLegacy /\ [][NextLegacy]_vars

(***************************************************************************)
(* One equivalence check: the LLM's verdict, the CAS result, the override  *)
(***************************************************************************)
JudgeConfidences == {0, 500, 1000}  \* equivalence_confidence values the LLM states

InitJudge ==
    /\ thread_pool = ProcessorPool(1)
    /\ IdleProcessor
    /\ attempt = NewAttempt(FALSE)
    /\ llm_cache = LLMCache(1, 1, TRUE, FALSE)
    /\ cache_call = NoCacheCall
    /\ cache_requests = {}
    /\ cache_tracked = NoTrackedPut
    /\ cache_recency = [k \in CacheKeys |-> 0]
    /\ llm_client = LLMClient({})
    /\ client_call = NoClientCall
    /\ pipeline = NewPipeline("")
    /\ IdleCostTracker
    /\ adapted_at = 0
    /\ cache_worker = NoCacheWorker
    /\ IdleConfig
    /\ validation = [NoValidation EXCEPT !.pc = "call"]

JudgeFrame ==
    UNCHANGED <<coreVars, cacheVars, clientVars, costVars, poolObs, workerVars, configVars>>

\* the model answered and its JSON was parsed: is_valid and
\* equivalence_confidence are read from it
ValidateParse ==
    /\ validation.pc = "call"
    /\ \E valid \in BOOLEAN, confidence \in JudgeConfidences :
          validation' = [validation EXCEPT !.pc = "verify", !.judge_valid = valid,
                                           !.is_valid = valid,
                                           !.equivalence_confidence = confidence]
    /\ JudgeFrame

\* cas_result = verify_with_cas(...), or the call raises and the except
\* branch logs it
ValidateVerify ==
    /\ validation.pc = "verify"
    /\ \E o \in CasOutcomes :
          validation' = IF o.path = "raises"
                        THEN [validation EXCEPT !.pc = "result", !.cas_raised = TRUE]
                        ELSE [validation EXCEPT !.pc = "override",
                                                !.cas = verify_with_cas(o)]
    /\ JudgeFrame

\* the if / elif on cas_result
ValidateOverride ==
    /\ validation.pc = "override"
    /\ validation' = [CasOverride(validation) EXCEPT !.pc = "result"]
    /\ JudgeFrame

\* result = {"valid": is_valid, ...}; return result
ValidateReturn ==
    /\ validation.pc = "result"
    /\ validation' = [validation EXCEPT !.pc = "returned"]
    /\ JudgeFrame

NextJudge ==
    \/ ValidateParse
    \/ ValidateVerify
    \/ ValidateOverride
    \/ ValidateReturn

SpecJudge == InitJudge /\ [][NextJudge]_vars

(***************************************************************************)
(* Fair runs of process_batch: the main thread keeps running, a free worker *)
(* thread takes queued work, and every started attempt eventually returns.  *)
(***************************************************************************)
MainStep ==
    \/ Begin
    \/ LoopHead
    \/ SubmitTask
    \/ EndSubmit
    \/ WaitFirst
    \/ WaitTimeout
    \/ Drain
    \/ Shutdown

WorkerStep ==
    \/ StartTask
    \/ \E n \in 1..Len(tasks), path \in Paths : FinishTask(n, path)

\* runs with a success rate of zero for every baseline, and runs with mixed
\* outcomes for the smallest one
LiveConfigs ==
    {c \in RunConfigs :
        /\ c.target = 1
        /\ c.ceiling = BaseCeiling
        /\ ~c.callback
        /\ \/ c.scenario \in {{"judge_valid"}, {"engineer_raises"}}
           \/ c.scenario = {"judge_invalid", "judge_valid"} /\ c.baseline = 1}

InitLive == \E c \in LiveConfigs : Constructed(c)

FairSpec ==
    /\ InitLive
    /\ [][Next]_vars
    /\ WF_vars(MainStep)
    /\ WF_vars(WorkerStep)

(***************************************************************************)
(* Properties                                                              *)
(***************************************************************************)
\* number of entries of the three result lists that belong to attempt n
Occurrences(n) ==
    Cardinality({i \in 1..Len(accepted) : accepted[i] = n})
    + Cardinality({i \in 1..Len(discarded) : discarded[i] = n})
    + Cardinality({i \in 1..Len(errors) : errors[i].att = n})

\* C1: when process_batch has returned, every launched attempt has exactly one
\* entry across accepted, discarded and errors, so the three lengths add up to
\* the number of launched attempts.
C1_PartitionComplete ==
    pc = "done" =>
        /\ Len(accepted) + Len(discarded) + Len(errors) = attempt_counter
        /\ \A n \in 1..attempt_counter : Occurrences(n) = 1

\* C2: the number of attempts launched never exceeds max_attempts.
C2_LaunchedWithinCeiling == attempt_counter <= max_attempts

\* C3: if every submitted attempt eventually completes, process_batch returns,
\* and it returns because the target was reached or the ceiling was hit.
C3_Terminates ==
    <>(pc = "done" /\ (approved_count >= target_count \/ attempt_counter >= max_attempts))

C3_Witness ==
    /\ pc = "done"
    /\ approved_count = 0
    /\ accepted = <<>>
    /\ attempt_counter >= max_attempts
    /\ scenario = {"judge_valid"}

\* C4 (as stated): an attempt that reaches the equivalence judgment is accepted
\* iff the judgment is not valid; a valid judgment discards it with the reason
\* "target model solved correctly"; nothing is accepted without the Target and
\* equivalence calls.
C4_Original ==
    /\ attempt.final_check.kind = "ok" =>
          /\ (attempt.result = "accepted") <=> ~attempt.final_check.valid
          /\ attempt.final_check.valid =>
                /\ attempt.result = "discarded"
                /\ attempt.rejection_reason = "target model solved correctly"
    /\ attempt.result = "accepted" =>
          /\ attempt.final_check.kind = "ok"
          /\ InSeq("target", attempt.calls)
          /\ InSeq("checker_equivalence", attempt.calls)

\* C4 (amended): as C4, with the rejection reason the code sets,
\* "Target model solved correctly".
C4_AcceptanceSemantics ==
    /\ attempt.final_check.kind = "ok" =>
          /\ (attempt.result = "accepted") <=> ~attempt.final_check.valid
          /\ attempt.final_check.valid =>
                /\ attempt.result = "discarded"
                /\ attempt.rejection_reason = "Target model solved correctly"
    /\ attempt.result = "accepted" =>
          /\ attempt.final_check.kind = "ok"
          /\ InSeq("target", attempt.calls)
          /\ InSeq("checker_equivalence", attempt.calls)

C4_Witness ==
    /\ attempt.stage = "Accepted"
    /\ attempt.final_check = [kind |-> "ok", valid |-> FALSE]
    /\ attempt.calls = <<"engineer", "checker_initial", "target", "checker_equivalence">>

\* every corrected hint of the checker result is a string
AllHintsAreStrings(ch) == \A i \in 1..Len(ch.items) : ch.items[i].value # NullHint

\* C5 (as stated): an attempt whose initial Checker call reports invalid is
\* discarded with the checker's stated reason, and neither the Target nor the
\* equivalence check is invoked for it.
C5_Original ==
    (attempt.checker_result.kind = "ok" /\ ~attempt.checker_result.valid) =>
        /\ attempt.result = "discarded"
        /\ attempt.rejection_reason = attempt.checker_result.reason
        /\ ~InSeq("target", attempt.calls)
        /\ ~InSeq("checker_equivalence", attempt.calls)

\* C5 (amended): an attempt whose initial Checker call reports invalid never
\* invokes the Target or the equivalence check; it is discarded with the
\* checker's stated reason when every corrected hint of the result is a
\* string, and otherwise ends as discarded or as error.
C5_InvalidStopsAtStageTwo ==
    (attempt.checker_result.kind = "ok" /\ ~attempt.checker_result.valid) =>
        /\ ~InSeq("target", attempt.calls)
        /\ ~InSeq("checker_equivalence", attempt.calls)
        /\ attempt.stage \in {"Discarded", "Errored"}
        /\ AllHintsAreStrings(attempt.checker_result.corrected) =>
              /\ attempt.result = "discarded"
              /\ attempt.rejection_reason = attempt.checker_result.reason

C5_Witness ==
    /\ attempt.stage = "Discarded"
    /\ attempt.checker_result.kind = "ok"
    /\ ~attempt.checker_result.valid
    /\ attempt.rejection_reason = "answer not justified"
    /\ attempt.calls = <<"engineer", "checker_initial">>

\* C6: an attempt in which a stage (or the setup before the first stage) raised
\* ends with the result type "error"; once drained it has an entry in errors
\* and none in accepted or discarded.
C6_ErrorsContained ==
    \A n \in 1..Len(tasks) :
        tasks[n].raised =>
            /\ tasks[n].st = "done" => tasks[n].res = "error"
            /\ tasks[n].st = "drained" =>
                  /\ InSeq([att |-> n, future_error |-> FALSE], errors)
                  /\ ~InSeq(n, accepted)
                  /\ ~InSeq(n, discarded)

\* an attempt raised and was drained, and a later attempt was launched and
\* drained after it
C6_Witness ==
    /\ pc = "done"
    /\ \E n, m \in 1..Len(tasks) :
          /\ n < m
          /\ tasks[n].raised /\ tasks[n].st = "drained"
          /\ ~tasks[m].raised /\ tasks[m].st = "drained"

\* C7: process_batch never holds more accepted results than the target count.
C7_AcceptedWithinTarget == Len(accepted) <= target_count

\* the scenario of C8: target 1, ceiling 5, every attempt judged incorrect
AllAcceptedScenario ==
    /\ target_count = 1
    /\ max_attempts = 5
    /\ scenario = {"judge_invalid"}
    /\ ~callback_raises

C9_WorkerBounds ==
    /\ thread_pool.min_workers <= thread_pool.current_workers
    /\ thread_pool.current_workers <= thread_pool.max_workers

\* C10: the stop signal is a one-way latch: it is not set at first, it is set
\* only by signal_stop, once set it stays set, and no attempt is submitted
\* while it is set.
C10_StopLatch ==
    /\ ~should_stop(thread_pool)
    /\ [][/\ should_stop(thread_pool) =>
               /\ should_stop(thread_pool)'
               /\ attempt_counter' = attempt_counter
               /\ futures' = futures
          /\ (~should_stop(thread_pool) /\ should_stop(thread_pool)') =>
               thread_pool' = signal_stop(thread_pool)]_vars

\* the signal was set, and work went on after it: a queued attempt was started
\* and answered "stopped"
C10_Witness ==
    /\ pc = "done"
    /\ should_stop(thread_pool)
    /\ \E n \in 1..Len(tasks) : tasks[n].res = "stopped"

(***************************************************************************)
(* Properties of the cache                                                 *)
(***************************************************************************)
\* the request of a get is the one of the tracked put, the temperature being
\* compared as a number
SameAsTracked(req) ==
    /\ cache_tracked # NoTrackedPut
    /\ [_generate_cache_key(req) EXCEPT !.temperature = ""] =
          [cache_tracked.key EXCEPT !.temperature = ""]
    /\ req.temperature.value = cache_tracked.value

\* the request of a get differs from the one of the tracked put in its temperature
DiffersInTemperature(req) ==
    /\ cache_tracked # NoTrackedPut
    /\ req.temperature.value # cache_tracked.value

\* C11 (as stated): within the TTL window a get with the same provider, model,
\* prompt, temperature and options as an earlier put returns the response that
\* was stored, and a get that differs only in temperature never returns that
\* entry.
C11_Original ==
    /\ (/\ cache_call.op = "get"
        /\ SameAsTracked(cache_call.request)
        /\ llm_cache.now - cache_tracked.time < llm_cache.ttl_seconds)
       => cache_call.response = cache_tracked.response
    /\ (/\ cache_call.op = "get"
        /\ DiffersInTemperature(cache_call.request)
        /\ cache_call.response # NoResponse)
       => _generate_cache_key(cache_call.request) # cache_tracked.key

\* C11 (amended): a put files its response under the key of its request; a get
\* whose key is held in memory with an age of at most ttl returns the response
\* filed under that key; whatever a get returns was filed under its own key,
\* in memory or in a file; and a get whose temperature differs from the one of
\* a put does not look up the key of that put.
C11_HitReturnsStored ==
    [][LET req == cache_call'.request
           k == _generate_cache_key(req)
       IN  /\ (cache_call'.op = "put" /\ llm_cache.cache_enabled) =>
                  llm_cache'.cache[k] =
                      [response |-> cache_call'.response, timestamp |-> llm_cache.now]
           /\ (/\ cache_call'.op = "get"
               /\ llm_cache.cache_enabled
               /\ InCache(llm_cache, k)
               /\ llm_cache.now - llm_cache.cache[k].timestamp <= llm_cache.ttl_seconds)
              => cache_call'.response = llm_cache.cache[k].response
           /\ (cache_call'.op = "get" /\ cache_call'.response # NoResponse) =>
                  \/ InCache(llm_cache, k)
                        /\ cache_call'.response = llm_cache.cache[k].response
                  \/ llm_cache.disk[k] # NoEntry
                        /\ cache_call'.response = llm_cache.disk[k].response
           /\ (/\ cache_call'.op = "get"
               /\ DiffersInTemperature(req)
               /\ cache_call'.response # NoResponse)
              => k # cache_tracked.key
      ]_vars

\* a get spelled differently from the put (provider in capitals) was answered
\* with the response of that put, a second after it
C11_Witness ==
    /\ cache_call.op = "get"
    /\ cache_call.request.provider = "OpenAI"
    /\ cache_tracked # NoTrackedPut
    /\ _generate_cache_key(cache_call.request) = cache_tracked.key
    /\ cache_call.response = cache_tracked.response
    /\ llm_cache.now > cache_tracked.time

\* C12: after any sequence of put, get and clear calls the in-memory cache
\* holds at most max_size entries.
C12_WithinMaxSize == CacheLen(llm_cache) <= llm_cache.max_size

\* a put overflowed a full cache, an entry was evicted, and the cache is full
C12_Witness ==
    /\ cache_call.op = "put"
    /\ cache_call.evicted # {}
    /\ CacheLen(llm_cache) = llm_cache.max_size

\* the keys held before a call, without the key of a get that found it expired
HeldBefore(c, op, k) ==
    IF op = "get" /\ InCache(c, k) /\ _is_expired(c, c.cache[k].timestamp)
    THEN HeldKeys(c) \ {k}
    ELSE HeldKeys(c)

\* C13: when a call overflows the cache, the entry evicted is the least
\* recently used one, a put and a get hit of a key being uses of it; the entry
\* just inserted is never the one evicted, and nothing is evicted without an
\* overflow.
C13_EvictsLeastRecentlyUsed ==
    [][cache_call'.op \in {"put", "get"} =>
         LET op == cache_call'.op
             k == _generate_cache_key(cache_call'.request)
             used == IF op = "put" THEN llm_cache.cache_enabled
                     ELSE cache_call'.response # NoResponse
             before == HeldBefore(llm_cache, op, k)
             candidates == IF used THEN before \cup {k} ELSE before
             rec == IF used THEN [cache_recency EXCEPT ![k] = Cardinality(CacheKeys) + 1]
                    ELSE cache_recency
             evicted == before \ HeldKeys(llm_cache')
         IN  /\ Cardinality(candidates) > llm_cache.max_size =>
                    /\ Cardinality(evicted) = 1
                    /\ \A e \in evicted :
                          /\ e # k
                          /\ \A j \in candidates : rec[e] <= rec[j]
             /\ Cardinality(candidates) <= llm_cache.max_size => evicted = {}
             /\ used => k \in HeldKeys(llm_cache')
      ]_vars

\* a put overflowed a cache of two entries and the entry put first is still
\* held: a later use of it made another entry the least recently used one
C13_Witness ==
    /\ cache_call.op = "put"
    /\ cache_call.evicted # {}
    /\ llm_cache.max_size = 2
    /\ cache_tracked # NoTrackedPut
    /\ InCache(llm_cache, cache_tracked.key)
    /\ cache_tracked.key # _generate_cache_key(cache_call.request)

\* C14: a get never returns an entry whose age has reached ttl, and a get that
\* finds an expired entry is a miss that removes it from the in-memory map and
\* from the LRU order.
C14_ServedOnlyWithinTtl ==
    /\ [](( /\ cache_call.op = "get"
            /\ cache_call.response # NoResponse
            /\ cache_tracked # NoTrackedPut
            /\ _generate_cache_key(cache_call.request) = cache_tracked.key)
          => llm_cache.now - cache_tracked.time < llm_cache.ttl_seconds)
    /\ [][LET k == _generate_cache_key(cache_call'.request)
          IN  (/\ cache_call'.op = "get"
               /\ InCache(llm_cache, k)
               /\ _is_expired(llm_cache, llm_cache.cache[k].timestamp))
              => /\ cache_call'.response = NoResponse
                 /\ ~InCache(llm_cache', k)
                 /\ ~InSeq(k, llm_cache'.access_order)
         ]_vars

(***************************************************************************)
(* Properties of the client                                                *)
(***************************************************************************)
\* C15: a second call_model with the request of an earlier one is answered
\* from the cache: the provider answers a request at most once, and the
\* cache is consulted by every call that got an answer.
C15_SecondCallFromCache ==
    /\ \A p \in ClientPrompts : llm_client.answered[p] <= 1
    /\ client_call.result = "ok" => cache_call.op # "none"

C19_MissingKeyAbortsAtStartup ==
    (pipeline.provider \in SupportedProviders /\ pipeline.provider \notin llm_client.keys)
    => /\ pipeline.launched = 0
       /\ pipeline.errors = 0
       /\ client_call.tries <= 1

LoggersIdle == \A t \in LoggerThreads : cost_threads[t].pc = "idle"

\* C16 as stated: once the log calls have returned, the total that
\* get_total_cost reports equals the sum over the logged calls of
\* tokensIn * inputRate + tokensOut * outputRate.
C16_Original ==
    LoggersIdle => get_total_cost(tracker) * 1000 = cost_expected.total

\* C16: the accumulated total is the sum over the logged calls of
\* tokensIn * inputRate + tokensOut * outputRate for the known pairs and
\* get_total_cost reports that sum rounded to six decimals; the reported
\* total and the tokens of every key never decrease; an unknown pair adds
\* its tokens and no cost.
C16_TotalIsRoundedSum ==
    /\ [](LoggersIdle =>
            /\ tracker.total_cost = cost_expected.total
            /\ get_total_cost(tracker) = Round6(cost_expected.total)
            /\ \A k \in CostKeys :
                  IF k \in StatsKeys(tracker)
                  THEN /\ tracker.model_stats[k].input_tokens
                            = cost_expected.tokens[k].input_tokens
                       /\ tracker.model_stats[k].output_tokens
                            = cost_expected.tokens[k].output_tokens
                  ELSE cost_expected.tokens[k] = [input_tokens |-> 0, output_tokens |-> 0]
            /\ Unlisted \in StatsKeys(tracker) => tracker.model_stats[Unlisted].cost = 0)
    /\ [][/\ get_total_cost(tracker') >= get_total_cost(tracker)
          /\ tracker'.total_cost >= tracker.total_cost
          /\ \A k \in CostKeys :
                /\ tracker'.model_stats[k].input_tokens >= tracker.model_stats[k].input_tokens
                /\ tracker'.model_stats[k].output_tokens >= tracker.model_stats[k].output_tokens]_vars

\* three calls have returned, one of them for an unknown pair, and the
\* reported total is not the exact sum
C16_Witness ==
    /\ LoggersIdle
    /\ cost_expected.logs >= 3
    /\ Unlisted \in StatsKeys(tracker)
    /\ tracker.model_stats[Unlisted].input_tokens > 0
    /\ Gpt4oMini \in StatsKeys(tracker)
    /\ tracker.total_cost > 0
    /\ get_total_cost(tracker) * 1000 # tracker.total_cost

\* C17: a read of the total and of the breakdown holds the lock of log, does
\* not fail, and returns a total equal to the sum of the per-model costs.
C17_ReadsAreSnapshots ==
    /\ cost_reader.pc = "iter" => tracker.lock = "reader"
    /\ cost_reader.pc # "failed"
    /\ cost_reader.pc = "done" => cost_reader.total_cost = cost_reader.sum

(***************************************************************************)
(* Attempts and the stop signal                                            *)
(***************************************************************************)
TerminalOutcomes == {"accepted", "discarded", "error"}

C21_Original ==
    Len(futures) <= thread_pool.current_workers * PipelineFactor

\* C21: an attempt is submitted only while fewer than twice the worker target
\* last returned by get_current_workers are in flight, and that value is the
\* target of the pool at the time of the submission.
C21_TopUpWithinTwiceTarget ==
    [][Len(futures') > Len(futures) =>
          /\ Len(futures') = Len(futures) + 1
          /\ Len(futures') <= current_workers * PipelineFactor
          /\ current_workers = thread_pool.current_workers]_vars

\* the pool has shrunk and more than twice its target are still in flight, and
\* attempts were submitted up to twice the earlier target
C21_Witness ==
    /\ thread_pool.current_workers < thread_pool.initial_workers
    /\ Len(futures) > thread_pool.current_workers * PipelineFactor
    /\ attempt_counter = thread_pool.initial_workers * PipelineFactor

\* the step is an adaptation: get_current_workers found _should_adapt true
Adapts ==
    /\ _should_adapt(thread_pool)
    /\ thread_pool'.elapsed = 0

\* the worker target C22 states for an adaptation of pool p
StatedTarget(p) ==
    IF RateTooLow(p) THEN Max(p.min_workers, (p.current_workers * 8) \div 10)
    ELSE IF RateGood(p) THEN Min(p.max_workers, (p.current_workers * 12 + 9) \div 10)
    ELSE p.current_workers

\* C22: an adaptation sets the worker target to max(min, floor(current * 0.8))
\* when the rate is below half the target rate, to min(max, ceil(current * 1.2))
\* when it is above 1.2 times the target rate, and leaves it unchanged
\* otherwise; a grow step from a current below max strictly increases the
\* target and a shrink step from a current above min strictly decreases it.
C22_AdaptationFormula ==
    [][Adapts =>
          /\ thread_pool'.current_workers = StatedTarget(thread_pool)
          /\ (RateTooLow(thread_pool)
                /\ thread_pool.current_workers > thread_pool.min_workers)
               => thread_pool'.current_workers < thread_pool.current_workers
          /\ (~RateTooLow(thread_pool) /\ RateGood(thread_pool)
                /\ thread_pool.current_workers < thread_pool.max_workers)
               => thread_pool'.current_workers > thread_pool.current_workers]_vars

\* C23: the worker target is recomputed only when at least
\* adaptation_interval attempts have completed since the previous adaptation
\* (since the construction of the pool for the first one) and at least 30
\* seconds have elapsed since it.
C23_AdaptsOnlyAfterInterval ==
    [][Adapts =>
          /\ thread_pool.completed_tasks - adapted_at >= AdaptationInterval
          /\ thread_pool.elapsed >= AdaptCooldown]_vars

\* a call of get_current_workers is due: adaptation_interval attempts have
\* completed since the last adaptation and 30 seconds have elapsed since it
AdaptationDue ==
    /\ thread_pool.completed_tasks - adapted_at >= AdaptationInterval
    /\ thread_pool.elapsed >= AdaptCooldown

\* C24: whenever a call of get_current_workers is due, the call recomputes
\* the worker target.
C24_DueCallAdapts ==
    AdaptationDue => _should_adapt(thread_pool)

\* C25: record_task_result is called once for every launched attempt, with
\* success exactly for the accepted ones, so that when process_batch has
\* returned the pool's completed count is the number of launched attempts and
\* the number of entries of the three lists, and its successful count is the
\* number of accepted entries.
C25_RecordedOncePerAttempt ==
    pc = "done" =>
        /\ thread_pool.completed_tasks = attempt_counter
        /\ thread_pool.completed_tasks = Len(accepted) + Len(discarded) + Len(errors)
        /\ thread_pool.successful_tasks = Len(accepted)

(***************************************************************************)
(* The durable tier and the lock of the cache                              *)
(***************************************************************************)
\* C26: with persistent storage enabled, a get does not return a response
\* that was put more than ttl ago, whether the entry is held in memory or was
\* reloaded from its file.
C26_ReloadKeepsLifetime ==
    ( /\ llm_cache.persistent_cache
      /\ cache_call.op = "get"
      /\ cache_call.response # NoResponse
      /\ cache_tracked # NoTrackedPut
      /\ _generate_cache_key(cache_call.request) = cache_tracked.key )
    => llm_cache.now - cache_tracked.time <= llm_cache.ttl_seconds

\* C27 as stated: the get of a thread after its own put returns the response
\* the thread stored, whatever the other threads call in between, as long as
\* no more than max_size distinct keys have been inserted (with caching
\* enabled and the entry not older than ttl).
C27_Original ==
    ( /\ cache_worker.pc = "read"
      /\ llm_cache.cache_enabled
      /\ cache_worker.age <= llm_cache.ttl_seconds
      /\ Cardinality(cache_worker.inserted) <= llm_cache.max_size )
    => cache_worker.got = cache_worker.response

\* C27: under any interleaving of get, put and clear calls of several
\* threads the LRU order holds exactly the keys of the map, each once; and
\* the get of a thread after its own put returns the response the thread
\* stored when no other thread has put under the same key or cleared the
\* cache in between, caching is enabled, the entry is not older than ttl and
\* no more than max_size distinct keys have been inserted.
C27_ConsistentUnderInterleaving ==
    /\ \A k \in CacheKeys : InCache(llm_cache, k) <=> InSeq(k, llm_cache.access_order)
    /\ \A i, j \in 1..Len(llm_cache.access_order) :
          i # j => llm_cache.access_order[i] # llm_cache.access_order[j]
    /\ ( /\ cache_worker.pc = "read"
         /\ ~cache_worker.disturbed
         /\ llm_cache.cache_enabled
         /\ cache_worker.age <= llm_cache.ttl_seconds
         /\ Cardinality(cache_worker.inserted) <= llm_cache.max_size )
       => cache_worker.got = cache_worker.response

\* the thread got its response back from a cache of two entries into which two
\* distinct keys have been put
C27_Witness ==
    /\ cache_worker.pc = "read"
    /\ ~cache_worker.disturbed
    /\ cache_worker.got = cache_worker.response
    /\ cache_worker.got # NoResponse
    /\ llm_cache.max_size = 2
    /\ Cardinality(cache_worker.inserted) = 2
    /\ Len(llm_cache.access_order) = 2
    /\ llm_cache.access_order[2] = _generate_cache_key(cache_worker.request)

\* the stage call s of the attempt a has returned its result to the attempt
Returned(a, s) ==
    CASE s = "engineer" -> a.stage = "Generated" \/ InSeq("checker_initial", a.calls)
      [] s = "checker_initial" -> a.checker_result.kind = "ok"
      [] s = "target" ->
            a.stage = "TargetAttempted" \/ InSeq("checker_equivalence", a.calls)
      [] s = "checker_equivalence" -> a.final_check.kind = "ok"

\* how many times the attempt a has called safe_log_cost for the stage s
TimesLogged(a, s) ==
    Cardinality({i \in 1..Len(a.cost_logged) : a.cost_logged[i] = s})

\* C28: an attempt logs cost exactly once for every stage call (Engineer,
\* initial Checker, Target, equivalence Checker) that returned a response,
\* and never for a stage that was not reached or that raised; a failure
\* while logging is swallowed: the attempt never ends in "error" at a stage
\* whose call returned, except for the hint handling that follows the
\* initial check.
C28_CostLoggedOncePerReturnedStage ==
    /\ \A s \in LogStages :
          TimesLogged(attempt, s) = IF Returned(attempt, s) THEN 1 ELSE 0
    /\ \A s \in LogStages : ~InSeq(s, attempt.calls) => TimesLogged(attempt, s) = 0
    /\ \A i \in 1..Len(attempt.cost_failed) :
          /\ attempt.cost_failed[i] \in attempt.log_fails
          /\ TimesLogged(attempt, attempt.cost_failed[i]) = 1
    /\ \A s \in LogStages :
          (attempt.result = "error" /\ attempt.error_stage = s /\ Returned(attempt, s))
          => /\ s = "checker_initial"
             /\ \/ HintsWereCorrected(attempt.checker_result.corrected) = "raise"
                \/ /\ attempt.checker_result.valid
                   /\ Truthy(attempt.checker_result.corrected)
                   /\ attempt.checker_result.corrected.kind # "dict"

\* an accepted attempt whose four stage calls returned and were logged once
\* each although every call of the tracker raised
C28_Witness ==
    /\ attempt.result = "accepted"
    /\ attempt.log_fails = LogStages
    /\ attempt.cost_logged =
          <<"engineer", "checker_initial", "target", "checker_equivalence">>
    /\ attempt.cost_failed = attempt.cost_logged

\* C29: executing an attempt leaves the global configuration, from which the
\* agents read their provider and model, unchanged.
C29_AttemptLeavesConfigUnchanged == [][config_manager' = config_manager]_vars

\* C30: with enhanced concurrency disabled the legacy loop stops at the
\* max_attempts ceiling: it never launches more than max_attempts attempts,
\* whether or not any attempt is accepted.
C30_LegacyStopsAtCeiling == attempt_counter <= max_attempts

\* the Target request of an attempt whose Engineer returns the problem text q
\* with the true answer w and whose initial check answers with ck
TargetRequestOf(q, w, ck) ==
    TargetStep(
        CheckerStep(
            EngineerStep(
                SelectStep([NewAttempt(FALSE) EXCEPT
                               !.engineer_output = [problem |-> q, answer |-> w]],
                           "proceed"),
                "ok"),
            ck),
        "ok").target_request

\* the initial-checker results after which an attempt goes on
PassingChecks == {ck \in CheckerResponses : ck.kind = "ok" /\ ck.valid}

VerifierConfidence(cas) ==
    IF cas.numerical_check # NoNumericalCheck THEN cas.numerical_check.confidence
    ELSE CasConfidence(cas)

\* C32: in equivalence mode, when the verifier's verdict disagrees with the
\* judge's and the verifier's confidence is above 0.8, the final verdict is
\* the verifier's, in both directions; when the confidence is not high, or
\* the verifier raises, the final verdict is the judge's.
C32_VerifierOverridesAtHighConfidence ==
    validation.pc = "returned"
    => IF /\ ~validation.cas_raised
          /\ validation.cas.verified # validation.judge_valid
          /\ VerifierConfidence(validation.cas) > HighConfidence
       THEN validation.is_valid = validation.cas.verified
       ELSE validation.is_valid = validation.judge_valid

\* the corrected-hints map ch holds a corrected hint that is a non-empty string
HasNonEmptyString(ch) ==
    /\ ch.kind = "dict"
    /\ \E i \in 1..Len(ch.items) : ch.items[i].value \notin {"", NullHint}

\* position of the first corrected hint of ch that is a string with something
\* but blanks in it, and of the first that is not a string (0: there is none)
FirstNonBlank(ch) ==
    LET at == {i \in 1..Len(ch.items) :
                  ch.items[i].value # NullHint /\ Strip(ch.items[i].value) # ""}
    IN IF at = {} THEN 0 ELSE CHOOSE i \in at : \A j \in at : i <= j
FirstNonString(ch) ==
    LET at == {i \in 1..Len(ch.items) : ch.items[i].value = NullHint}
    IN IF at = {} THEN 0 ELSE CHOOSE i \in at : \A j \in at : i <= j

\* C33 as stated: once the initial Checker has returned, hints_were_corrected
\* is true if and only if the corrected-hints map holds at least one corrected
\* hint that is a non-empty string.
C33_Original ==
    attempt.checker_result.kind = "ok"
    => (attempt.hints_were_corrected <=> HasNonEmptyString(attempt.checker_result.corrected))

\* C33: once the initial Checker has returned a corrected-hints map, the
\* attempt ends in error when a corrected hint that is not a string comes
\* before every hint with something but blanks in it; otherwise
\* hints_were_corrected is true if and only if the map holds a corrected
\* hint that is a string with something but blanks in it. When the
\* corrected hints are absent, empty or not a map the flag is false.
C33_FlagIffNonBlankCorrection ==
    attempt.checker_result.kind = "ok"
    => LET ch == attempt.checker_result.corrected
       IN IF ch.kind # "dict" \/ ch.items = <<>>
          THEN ~attempt.hints_were_corrected
          ELSE IF FirstNonString(ch) # 0
                  /\ (FirstNonBlank(ch) = 0 \/ FirstNonString(ch) < FirstNonBlank(ch))
          THEN attempt.result = "error" /\ attempt.error_stage = "checker_initial"
          ELSE attempt.hints_were_corrected <=> FirstNonBlank(ch) # 0

\* the flag is set by a map whose first corrected hint is blank and whose
\* second is not
C33_Witness ==
    /\ attempt.hints_were_corrected
    /\ attempt.checker_result.kind = "ok"
    /\ attempt.checker_result.corrected.kind = "dict"
    /\ Len(attempt.checker_result.corrected.items) = 2
    /\ attempt.checker_result.corrected.items[1].value = " "
    /\ attempt.checker_result.corrected.items[2].value = "rev"

\* the attempt a was validated by the initial Checker and went on with the
\* hints merged from the corrected-hints map ch
MergedWith(a, ch) ==
    /\ a.checker_result.kind = "ok"
    /\ a.checker_result.valid
    /\ a.checker_result.corrected = ch
    /\ ch.kind = "dict"
    /\ ch.items # <<>>
    /\ a.stage = "InitiallyValidated" \/ InSeq("target", a.calls)

\* C34: when the initial Checker validates a problem and supplies a
\* corrected-hints map, the resulting hints are the Engineer's hints with
\* exactly the keys present in the map overwritten by the corrected values:
\* a key absent from the map keeps its value and the set of keys is unchanged.
C34_MergeOverwritesOnlyCorrectedKeys ==
    LET ch == attempt.checker_result.corrected
    IN MergedWith(attempt, ch)
       => /\ DOMAIN attempt.hints = DOMAIN EngineerHints
          /\ \A k \in DOMAIN EngineerHints :
                IF \E i \in 1..Len(ch.items) : ch.items[i].key = k
                THEN \A i \in 1..Len(ch.items) :
                        ch.items[i].key = k => attempt.hints[k] = ch.items[i].value
                ELSE attempt.hints[k] = EngineerHints[k]

\* a map that corrects hint "0" and names a key the hints do not have: hint
\* "0" is replaced, the other hints and the keys are as the Engineer gave them
C34_Witness ==
    /\ MergedWith(attempt, attempt.checker_result.corrected)
    /\ attempt.checker_result.corrected.items =
          <<[key |-> "7", value |-> "rev"], [key |-> "0", value |-> "rev"]>>
    /\ attempt.hints = [EngineerHints EXCEPT !["0"] = "rev"]

\* C35: when similarity scoring is enabled and the similarity call fails for
\* an attempt whose equivalence judgment was invalid, the attempt is still
\* accepted, with a null similarity score and no matches; the failure never
\* makes the attempt discarded or errored.
C35_SimilarityFailureKeepsAccepted ==
    /\ attempt.similarity_response = "raise"
       => /\ attempt.use_search
          /\ attempt.final_check.kind = "ok" /\ ~attempt.final_check.valid
          /\ attempt.result = "accepted"
          /\ attempt.stage = "Accepted"
          /\ attempt.similar = "null"
    /\ ( /\ attempt.use_search
         /\ attempt.final_check.kind = "ok"
         /\ ~attempt.final_check.valid )
       => attempt.result = "accepted" /\ attempt.similar \in {"scored", "null"}

\* an accepted attempt whose similarity call raised
C35_Witness ==
    /\ attempt.use_search
    /\ attempt.similarity_response = "raise"
    /\ attempt.result = "accepted"
    /\ attempt.similar = "null"
    /\ attempt.calls[Len(attempt.calls)] = "similarity"

\* C36: the k-th wait of a call of call_model is retry_delay * 2^(k-1) plus a
\* jitter that is at most a tenth of that base delay and is fixed by the
\* calling thread's hash; a wait follows every failed invocation except the
\* last one the loop allows.
C36_BackoffDoublesWithThreadJitter ==
    LET call == client_call
        failed == call.attempt
    IN  /\ Len(call.waits) = IF failed < call.max_retries THEN failed
                             ELSE IF call.max_retries = 0 THEN 0
                             ELSE call.max_retries - 1
        /\ \A k \in 1..Len(call.waits) :
              LET base == call.retry_delay * 2^(k - 1)
                  extra == call.waits[k] - base
              IN  /\ extra >= 0
                  /\ extra * 10 <= base
                  /\ extra * 100 = base * call.thread_hash

\* a call that failed three times: it waited twice, the second wait on a
\* doubled base with a jitter, and not after the last failure
C36_Witness ==
    /\ client_call.pc = "raised"
    /\ client_call.max_retries = 3
    /\ client_call.tries = 3
    /\ client_call.thread_hash = 9
    /\ client_call.waits = <<1090, 2180>>

\* the attempt a passed the initial validation and went on to the target
\* model with the hints it carries
PassedInitialValidation(a) ==
    /\ a.checker_result.kind = "ok"
    /\ a.checker_result.valid
    /\ a.stage = "InitiallyValidated" \/ InSeq("target", a.calls)

\* C37: for every attempt that passes initial validation,
\* hints_were_corrected is false only if the hints carried forward are
\* identical to the Engineer's hints, and true only if at least one hint
\* differs from the Engineer's.
C37_FlagMatchesHintChange ==
    PassedInitialValidation(attempt)
    => (attempt.hints_were_corrected <=> attempt.hints # EngineerHints)

\* C38: at any time during process_batch, the number of attempts executing
\* concurrently is at most the pool's current worker target.
C38_ParallelismFollowsTarget ==
    Cardinality(Running) <= thread_pool.current_workers

\* C39: a progress callback that raises while a drained attempt is being
\* reported does not change the result lists: the drain leaves accepted,
\* discarded, errors and the approved count as _update_results alone makes
\* them, one entry for each drained attempt that was accepted, discarded or
\* an error.
C39_RaisingCallbackKeepsResults ==
    [][(pc = "drain" /\ pc' # "drain") =>
         LET r == DrainAll([accepted |-> accepted, discarded |-> discarded,
                            errors |-> errors, approved_count |-> approved_count],
                           completed_futures, {})
         IN /\ accepted' = r.accepted
            /\ discarded' = r.discarded
            /\ errors' = r.errors
            /\ approved_count' = r.approved_count]_vars
====
